---- MODULE Spec2Model ----
(***************************************************************************)
(* Model of the searchagent terminal UI: the tag-aware stream formatter    *)
(* (searchagent/ui/formatter.py, FormattedPrinter) and the progress/ETA    *)
(* estimator (searchagent/ui/progress.py, ProgressBarPrinter); and of the  *)
(* tools of the research loop: the knowledge store (tools/knowledge.py)    *)
(* with the clean-up at the start of a session (main.py), the report       *)
(* writer (tools/reporting.py), the crawler (tools/crawler.py) and the     *)
(* search (tools/search.py); and of the session around them: the prompts,  *)
(* rounds and exception handlers of main.py and core/researcher.py.        *)
(*                                                                         *)
(* Strings are sequences of one-character strings.  Text printed with      *)
(* print(..., end="") is appended character by character to stdout; a      *)
(* style code is appended as one item (GREY, RESET).                       *)
(***************************************************************************)
EXTENDS Integers, Sequences, FiniteSets, TLC

VARIABLES
    \* --- the stream fed to the formatter (environment) ---
    text,                    \* the whole response text of the stream
    pos,                     \* number of characters of text already fed
    phase,                   \* "streaming" | "finalized"
    \* --- FormattedPrinter fields ---
    current_buffer,
    bot_response_buffer,
    in_think_content_mode,
    in_analysis_mode,
    \* --- what the formatter wrote ---
    stdout,                  \* print(...) calls, in order
    console,                 \* console.print(Markdown(...)) calls, in order
    \* --- history of the current stream (observation only) ---
    route,                   \* destination of each consumed character
    dropped,                 \* the segments removed without being emitted
    returned,                \* FALSE once a call's dispatch loop failed to end
    \* --- ProgressBarPrinter fields ---
    start_time,
    last_time,
    ema_speed,               \* None or a rational <<n, d>>, percent per second
    last_pct,
    first_call,
    \* --- the estimator's environment ---
    now,                     \* time.time() at the latest call, in clock ticks
    terminal,                \* what the estimator printed, in order
    observed,                \* the percentage of each update_progress call
    reported,                \* the progress value passed to each call, in hundredths
    zero_division,           \* TRUE once a call raised ZeroDivisionError
    cleared,                 \* the round ended and clear() was called
    \* --- the knowledge store and the session around it ---
    knowledge_file,          \* the backing file research_knowledge/knowledge.json
    initial_file,            \* the backing file when the process started
    session,                 \* position of main(): "start" | "prompt" |
                             \* "research" (in a round) | "followup" (at
                             \* the follow-up prompt) | "exit"
    undeleted,               \* a knowledge file could not be deleted at the
                             \* start of the session (a warning was logged)
    kb_result,               \* outcome of the latest knowledge tool call
    saved,                   \* the successful save_knowledge calls, in order
    \* --- the report writer ---
    reports_dir,             \* the files of reports/, a set of [name, content]
    clock,                   \* datetime.now(), in clock ticks
    report_result,           \* outcome of the latest create_report call
    report_log,              \* the successful create_report calls, in order
    \* --- the web tools ---
    web_result,              \* outcome of the latest crawl4ai or search call
    fetched,                 \* the URLs handed to the crawler
    \* --- main() and researcher() ---
    topic,                   \* the line read at the topic prompt, once read
    user_input,              \* the latest answer to the follow-up prompt
    chat,                    \* the messages of the ChatManager, once created
    rounds,                  \* research rounds started
    completed,               \* research rounds that returned
    main_result,             \* of main(): "running" | "returned" | "raised"
    escaped,                 \* the exception that left researcher(), "" if
                             \* none did
    log                      \* the session's log records, in order

fvars == <<text, pos, phase, current_buffer, bot_response_buffer,
           in_think_content_mode, in_analysis_mode, stdout, console,
           route, dropped, returned>>

pvars == <<start_time, last_time, ema_speed, last_pct, first_call,
           now, terminal, observed, reported, zero_division, cleared>>

kvars == <<knowledge_file, initial_file, session, undeleted, kb_result,
           saved>>

rvars == <<reports_dir, clock, report_result, report_log>>

wvars == <<web_result, fetched>>

svars == <<topic, user_input, chat, rounds, completed, main_result,
           escaped, log>>

\* the variables of the tools and of the session
tvars == <<kvars, rvars, wvars, svars>>

vars == <<fvars, pvars, tvars>>

----------------------------------------------------------------------------
(* Bounds of the model *)

\* number of tokens (markers or plain characters) of a generated stream
MaxTokens == 3
\* length of the reasoning / analysis / channel-name text of a shaped stream
MaxInner == 2
\* number of update_progress calls of a round
MaxCalls == 3
\* clock ticks per second: the resolution of the times of the calls
TicksPerSecond == 10
\* number of successful save_knowledge calls of a session
MaxSaves == 3
\* number of create_report calls of a session
MaxReports == 2
\* number of research rounds of a session
MaxRounds == 2
\* length of a generated report title
MaxTitle == 2

----------------------------------------------------------------------------
(* config/constants.py *)

THINK_OPEN   == <<"<", "t", "h", "i", "n", "k", ">">>
THINK_CLOSE  == <<"<", "/", "t", "h", "i", "n", "k", ">">>
CHANNEL_OPEN == <<"<", "|", "c", "h", "a", "n", "n", "e", "l", "|", ">">>
MESSAGE_OPEN == <<"<", "|", "m", "e", "s", "s", "a", "g", "e", "|", ">">>
END_CLOSE    == <<"<", "|", "e", "n", "d", "|", ">">>

GREY  == "\\033[90m"
RESET == "\\033[0m"

Markers == {THINK_OPEN, THINK_CLOSE, CHANNEL_OPEN, MESSAGE_OPEN, END_CLOSE}

----------------------------------------------------------------------------
(* Python string primitives *)

Min(S) == CHOOSE x \in S : \A y \in S : x <= y

\* s.find(t): lowest 0-based index of an occurrence of t in s, -1 if none
Find(s, t) ==
    LET hits == {i \in 0..(Len(s) - Len(t)) : SubSeq(s, i + 1, i + Len(t)) = t}
    IN  IF hits = {} THEN -1 ELSE Min(hits)

\* s[:n] and s[n:] for n >= 0 (a slice clamps to the string's length)
SliceTo(s, n)   == SubSeq(s, 1, IF n > Len(s) THEN Len(s) ELSE n)
SliceFrom(s, n) == SubSeq(s, n + 1, Len(s))

Whitespace == {" ", "\n", "\t"}

\* s.strip() is non-empty: s holds a character that is not whitespace
StripNonEmpty(s) == \E i \in 1..Len(s) : s[i] \notin Whitespace

----------------------------------------------------------------------------
(* ui/formatter.py : FormattedPrinter                                      *)
(* The handlers work on a record w holding the instance's fields and the   *)
(* stdout written so far; fields they do not assign are passed through.    *)

\* FormattedPrinter.__init__
FormattedPrinter ==
    [current_buffer        |-> <<>>,
     bot_response_buffer   |-> <<>>,
     in_think_content_mode |-> FALSE,
     in_analysis_mode      |-> FALSE]

\* _process_think_mode, with the pending text left in the buffer when no
\* closing tag is there yet
process_think_mode_keeps_buffer(w) ==
    LET close_tag_index == Find(w.current_buffer, THINK_CLOSE)
    IN  IF close_tag_index # -1
        THEN [w EXCEPT
                !.stdout = @ \o SliceTo(w.current_buffer, close_tag_index) \o <<RESET>>,
                !.current_buffer =
                    SliceFrom(w.current_buffer, close_tag_index + Len(THINK_CLOSE)),
                !.in_think_content_mode = FALSE]
        ELSE [w EXCEPT !.stdout = @ \o w.current_buffer]

process_think_mode(w) ==
    LET close_tag_index == Find(w.current_buffer, THINK_CLOSE)
    IN  IF close_tag_index # -1
        THEN \* found closing tag: print content, reset style, leave think mode
             [w EXCEPT
                !.stdout = @ \o SliceTo(w.current_buffer, close_tag_index) \o <<RESET>>,
                !.current_buffer =
                    SliceFrom(w.current_buffer, close_tag_index + Len(THINK_CLOSE)),
                !.in_think_content_mode = FALSE]
        ELSE \* no closing tag yet: print everything
             [w EXCEPT
                !.stdout = @ \o w.current_buffer,
                !.current_buffer = <<>>]

\* _process_analysis_mode, taking the reasoning block's closing tag for its
\* own as well
process_analysis_mode_any_close(w) ==
    LET own   == Find(w.current_buffer, END_CLOSE)
        other == Find(w.current_buffer, THINK_CLOSE)
        end_tag_index == IF own # -1 /\ (other = -1 \/ own < other) THEN own ELSE other
        tag == IF end_tag_index = own THEN END_CLOSE ELSE THINK_CLOSE
    IN  IF end_tag_index # -1
        THEN [w EXCEPT
                !.stdout = @ \o SliceTo(w.current_buffer, end_tag_index) \o <<RESET>>,
                !.current_buffer =
                    SliceFrom(w.current_buffer, end_tag_index + Len(tag)),
                !.in_analysis_mode = FALSE]
        ELSE [w EXCEPT
                !.stdout = @ \o w.current_buffer,
                !.current_buffer = <<>>]

process_analysis_mode(w) ==
    LET end_tag_index == Find(w.current_buffer, END_CLOSE)
    IN  IF end_tag_index # -1
        THEN [w EXCEPT
                !.stdout = @ \o SliceTo(w.current_buffer, end_tag_index) \o <<RESET>>,
                !.current_buffer =
                    SliceFrom(w.current_buffer, end_tag_index + Len(END_CLOSE)),
                !.in_analysis_mode = FALSE]
        ELSE [w EXCEPT
                !.stdout = @ \o w.current_buffer,
                !.current_buffer = <<>>]

\* _handle_think_tag, advancing the buffer one character too far
handle_think_tag_skips_one(w, tag_index) ==
    [w EXCEPT
        !.bot_response_buffer = @ \o SliceTo(w.current_buffer, tag_index),
        !.stdout = @ \o <<GREY>>,
        !.current_buffer = SliceFrom(w.current_buffer, tag_index + Len(THINK_OPEN) + 1),
        !.in_think_content_mode = TRUE]

handle_think_tag(w, tag_index) ==
    [w EXCEPT
        !.bot_response_buffer = @ \o SliceTo(w.current_buffer, tag_index),
        !.stdout = @ \o <<GREY>>,
        !.current_buffer = SliceFrom(w.current_buffer, tag_index + Len(THINK_OPEN)),
        !.in_think_content_mode = TRUE]

\* _handle_channel_tag, keeping the buffer to wait for the message tag
handle_channel_tag_waits(w, tag_index) ==
    LET message_tag_index == Find(w.current_buffer, MESSAGE_OPEN)
    IN  IF message_tag_index # -1 /\ message_tag_index > tag_index
        THEN [w EXCEPT
                !.bot_response_buffer = @ \o SliceTo(w.current_buffer, tag_index),
                !.stdout = @ \o <<GREY>>,
                !.current_buffer =
                    SliceFrom(w.current_buffer, message_tag_index + Len(MESSAGE_OPEN)),
                !.in_analysis_mode = TRUE]
        ELSE w

\* _handle_channel_tag, dropping the buffer when no message tag follows
handle_channel_tag_drops(w, tag_index) ==
    LET message_tag_index == Find(w.current_buffer, MESSAGE_OPEN)
    IN  IF message_tag_index # -1 /\ message_tag_index > tag_index
        THEN [w EXCEPT
                !.bot_response_buffer = @ \o SliceTo(w.current_buffer, tag_index),
                !.stdout = @ \o <<GREY>>,
                !.current_buffer =
                    SliceFrom(w.current_buffer, message_tag_index + Len(MESSAGE_OPEN)),
                !.in_analysis_mode = TRUE]
        ELSE [w EXCEPT !.current_buffer = <<>>]

handle_channel_tag(w, tag_index) ==
    LET message_tag_index == Find(w.current_buffer, MESSAGE_OPEN)
    IN  IF message_tag_index # -1 /\ message_tag_index > tag_index
        THEN \* complete channel...message sequence
             [w EXCEPT
                !.bot_response_buffer = @ \o SliceTo(w.current_buffer, tag_index),
                !.stdout = @ \o <<GREY>>,
                !.current_buffer =
                    SliceFrom(w.current_buffer, message_tag_index + Len(MESSAGE_OPEN)),
                !.in_analysis_mode = TRUE]
        ELSE \* no message tag yet: accumulate
             [w EXCEPT
                !.bot_response_buffer = @ \o w.current_buffer,
                !.current_buffer = <<>>]

\* _process_normal_mode, printing the text it accumulates
process_normal_mode_echoes(w) ==
    LET think_open_tag_index   == Find(w.current_buffer, THINK_OPEN)
        channel_open_tag_index == Find(w.current_buffer, CHANNEL_OPEN)
        is_think_tag ==
            think_open_tag_index # -1
            /\ (channel_open_tag_index = -1
                \/ think_open_tag_index < channel_open_tag_index)
        is_channel_tag == ~is_think_tag /\ channel_open_tag_index # -1
    IN  IF is_think_tag THEN handle_think_tag(w, think_open_tag_index)
        ELSE IF is_channel_tag THEN handle_channel_tag(w, channel_open_tag_index)
        ELSE [w EXCEPT
                !.bot_response_buffer = @ \o w.current_buffer,
                !.stdout = @ \o w.current_buffer,
                !.current_buffer = <<>>]

process_normal_mode(w) ==
    LET think_open_tag_index   == Find(w.current_buffer, THINK_OPEN)
        channel_open_tag_index == Find(w.current_buffer, CHANNEL_OPEN)
        is_think_tag ==
            think_open_tag_index # -1
            /\ (channel_open_tag_index = -1
                \/ think_open_tag_index < channel_open_tag_index)
        is_channel_tag == ~is_think_tag /\ channel_open_tag_index # -1
    IN  IF is_think_tag THEN handle_think_tag(w, think_open_tag_index)
        ELSE IF is_channel_tag THEN handle_channel_tag(w, channel_open_tag_index)
        ELSE \* no tags in buffer: accumulate response
             [w EXCEPT
                !.bot_response_buffer = @ \o w.current_buffer,
                !.current_buffer = <<>>]

\* the dispatch without the branch of the analysis mode
dispatch_without_analysis(w) ==
    IF w.in_think_content_mode THEN process_think_mode(w)
    ELSE process_normal_mode(w)

\* one iteration of the loop of _process_buffer
dispatch(w) ==
    IF w.in_think_content_mode THEN process_think_mode(w)
    ELSE IF w.in_analysis_mode THEN process_analysis_mode(w)
    ELSE process_normal_mode(w)

\* the characters of a stdout log (the style codes left out)
IsStyle(x) == x \in {GREY, RESET}
PrintedText(out) == SelectSeq(out, LAMBDA x : ~IsStyle(x))

Repeat(x, n) == [i \in 1..(IF n > 0 THEN n ELSE 0) |-> x]

\* Observation of one loop iteration from w to v: where each consumed
\* character went.  What left the buffer and was neither appended to the
\* accumulator nor printed was removed.
account(w, v) ==
    LET consumed   == Len(w.current_buffer) - Len(v.current_buffer)
        newVisible == SliceFrom(v.bot_response_buffer, Len(w.bot_response_buffer))
        newPrinted == PrintedText(SliceFrom(v.stdout, Len(w.stdout)))
        emitted    == Len(newVisible) + Len(newPrinted)
        printedAs  == IF w.in_think_content_mode THEN "think" ELSE "analysis"
        removed    == SubSeq(w.current_buffer, emitted + 1, consumed)
    IN  [v EXCEPT
            !.route = @ \o Repeat("visible", Len(newVisible))
                        \o Repeat(printedAs, Len(newPrinted))
                        \o Repeat("removed", consumed - emitted),
            !.dropped = IF removed = <<>> THEN @ ELSE Append(@, removed)]

\* _process_buffer with an if in the place of the while: one handler call
process_loop_single_pass(w, fuel) ==
    IF w.current_buffer = <<>> THEN w ELSE account(w, dispatch(w))

\* _process_buffer: while self.current_buffer: dispatch.  Every iteration of
\* the code shortens the buffer, so Len(buffer) iterations suffice; a loop
\* that needs more does not return.
RECURSIVE process_loop(_, _)
process_loop(w, fuel) ==
    IF w.current_buffer = <<>> THEN w
    ELSE IF fuel = 0 THEN [w EXCEPT !.returned = FALSE]
    ELSE process_loop(account(w, dispatch(w)), fuel - 1)

process_buffer(w) == process_loop(w, Len(w.current_buffer))

\* print_fragment(fragment)
print_fragment(w, content) ==
    process_buffer([w EXCEPT !.current_buffer = @ \o content])

\* finalize, leaving an open formatting mode as it is
finalize_leaves_style(w) ==
    LET w1 == process_buffer(w)
        w3 == IF StripNonEmpty(w1.bot_response_buffer)
              THEN [w1 EXCEPT !.console = Append(@, w1.bot_response_buffer)]
              ELSE w1
    IN  [w3 EXCEPT !.bot_response_buffer = <<>>]

\* finalize, leaving the accumulated response in place after rendering it
finalize_keeps_response(w) ==
    LET w1 == process_buffer(w)
        w2 == IF w1.in_think_content_mode \/ w1.in_analysis_mode
              THEN [w1 EXCEPT !.stdout = @ \o <<RESET>>,
                              !.in_think_content_mode = FALSE,
                              !.in_analysis_mode = FALSE]
              ELSE w1
    IN  IF StripNonEmpty(w2.bot_response_buffer)
        THEN [w2 EXCEPT !.console = Append(@, w2.bot_response_buffer)]
        ELSE w2

finalize(w) ==
    LET w1 == process_buffer(w)
        \* reset any open formatting mode
        w2 == IF w1.in_think_content_mode \/ w1.in_analysis_mode
              THEN [w1 EXCEPT !.stdout = @ \o <<RESET>>,
                              !.in_think_content_mode = FALSE,
                              !.in_analysis_mode = FALSE]
              ELSE w1
        \* render the markdown only if there is actual content
        w3 == IF StripNonEmpty(w2.bot_response_buffer)
              THEN [w2 EXCEPT !.console = Append(@, w2.bot_response_buffer)]
              ELSE w2
    IN  [w3 EXCEPT !.bot_response_buffer = <<>>]

----------------------------------------------------------------------------
(* The streams fed to the formatter *)

RECURSIVE Flatten(_)
Flatten(ss) == IF ss = <<>> THEN <<>> ELSE Head(ss) \o Flatten(Tail(ss))

\* "V" stands for visible answer text, " " for whitespace
Tokens == Markers \cup {<<"V">>, <<" ">>}

\* every concatenation of at most MaxTokens tokens: well-formed blocks as
\* well as stray, repeated, out-of-order and unterminated markers
StreamTexts ==
    {Flatten(ts) : ts \in UNION {[1..k -> Tokens] : k \in 0..MaxTokens}}

Inner(c) == {Repeat(c, n) : n \in 1..MaxInner}
Outer    == {<<>>, <<"V">>}

\* pre <think>R</think> post, the reasoning text R made of "R"
ThinkTexts ==
    {pre \o THINK_OPEN \o r \o THINK_CLOSE \o post :
        pre \in Outer, r \in Inner("R"), post \in Outer}

\* pre <|channel|>X<|message|>Y<|end|> post
ChannelTexts ==
    {pre \o CHANNEL_OPEN \o x \o MESSAGE_OPEN \o y \o END_CLOSE \o post :
        pre \in Outer, x \in Inner("X"), y \in Inner("Y"), post \in Outer}

----------------------------------------------------------------------------
(* Exact arithmetic for the estimator's float values: a rational is a pair  *)
(* <<n, d>> with d > 0 in lowest terms.  Rounding of floats is not         *)
(* modelled.                                                               *)

\* An attribute that may be None holds None or the value wrapped by Some (a
\* rational is a pair as it stands).
None == <<>>
Some(x) == <<x>>

Abs(x) == IF x < 0 THEN -x ELSE x

RECURSIVE GCD(_, _)
GCD(a, b) == IF b = 0 THEN a ELSE GCD(b, a % b)

Rat(n, d) ==
    LET sn == IF d < 0 THEN -n ELSE n
        sd == Abs(d)
        g  == GCD(Abs(sn), sd)
    IN  <<sn \div g, sd \div g>>

RatAdd(x, y) == Rat(x[1] * y[2] + y[1] * x[2], x[2] * y[2])
RatSub(x, y) == Rat(x[1] * y[2] - y[1] * x[2], x[2] * y[2])
RatMul(x, y) == Rat(x[1] * y[1], x[2] * y[2])
\* x / y for y # 0
RatDiv(x, y) == Rat(x[1] * y[2], x[2] * y[1])
RatGT(x, y)  == x[1] * y[2] > y[1] * x[2]
RatIsZero(x) == x[1] = 0

\* int(x): truncation towards zero
Trunc(x) == IF x[1] >= 0 THEN x[1] \div x[2] ELSE -((-x[1]) \div x[2])

----------------------------------------------------------------------------
(* config/settings.py : ProgressConfig *)

ema_alpha       == Rat(3, 10)
bar_width       == 30
update_interval == Rat(1, 10)
reset_threshold == 90

\* the literal of the phase-reset test, progress.py line 60
MidThreshold == 50

----------------------------------------------------------------------------
(* ui/progress.py : ProgressBarPrinter                                     *)
(* The methods work on a record e holding the instance's fields, what it   *)
(* printed and whether the call raised.  Times are clock ticks; a          *)
(* difference of times is converted to seconds.                            *)

\* ProgressBarPrinter.__init__
ProgressBarPrinter ==
    [start_time |-> None,
     last_time  |-> None,
     ema_speed  |-> None,
     last_pct   |-> 0,
     first_call |-> TRUE]

Seconds(ticks) == Rat(ticks, TicksPerSecond)

\* A progress value is given in hundredths (50 is 0.5, 10000 is 100.0).
\* progress <= 1.0 is a fraction, scaled by 100; a value above 1.0 is taken
\* as the percentage it is.  The values drawn are whole percentages.
\* the normalisation taking the value 1.0 for a percentage
normalize_below_one(progress) ==
    IF progress < 100 THEN progress ELSE progress \div 100

normalize(progress) ==
    IF progress <= 100 THEN progress ELSE progress \div 100

\* "X" * n with at least one glyph whatever the count
Glyphs_at_least_one(n) == IF n > 1 THEN n ELSE 1

\* "X" * n for the bar: a negative count gives the empty string
Glyphs(n) == IF n > 0 THEN n ELSE 0

\* the ETA field "Calculating..."; a computed ETA is Some(seconds)
Calculating == None

\* _render(pct) at time t, printed as call number k
render(e, pct, t, k) ==
    LET eta_str ==
            IF e.ema_speed # None /\ ~RatIsZero(e.ema_speed)
               /\ RatGT(e.ema_speed, Rat(0, 1))
            THEN Some(Trunc(RatDiv(Rat(100 - pct, 1), e.ema_speed)))
            ELSE Calculating
        elapsed ==
            IF e.start_time # None /\ e.start_time # Some(0)
            THEN Trunc(Seconds(t - e.start_time[1]))
            ELSE 0
        filled == Trunc(Rat(bar_width * pct, 100))
    IN  [e EXCEPT !.terminal =
            Append(@, [kind    |-> "bar",
                       call    |-> k,
                       at      |-> t,
                       pct     |-> pct,
                       filled  |-> Glyphs(filled),
                       empty   |-> Glyphs(bar_width - filled),
                       eta     |-> eta_str,
                       elapsed |-> elapsed])]

\* the throttle of line 80 without the exemption of a finished phase
should_update_interval_only(dt, pct) == RatGT(dt, update_interval)

\* the throttle of line 80 letting an update through at the interval itself
should_update_at_interval(dt, pct) == ~RatGT(update_interval, dt) \/ pct >= 100

\* line 80: update stats every update_interval or if finished
should_update(dt, pct) == RatGT(dt, update_interval) \/ pct >= 100

\* lines 81-93 with the rate computed whatever the elapsed time
update_stats_unguarded(e, pct, t, k, dt) ==
    LET dp == pct - e.last_pct
    IN  IF RatIsZero(dt)
        THEN [e EXCEPT !.zero_division = TRUE]
        ELSE LET speed == RatDiv(Rat(dp, 1), dt)
                 e1 == [e EXCEPT !.ema_speed =
                           IF @ = None THEN speed
                           ELSE RatAdd(RatMul(ema_alpha, speed),
                                       RatMul(RatSub(Rat(1, 1), ema_alpha), @))]
             IN  render([e1 EXCEPT !.last_time = Some(t), !.last_pct = pct], pct, t, k)

\* lines 81-93 with the progress made recorded in place of the percentage
update_stats_records_delta(e, pct, t, k, dt) ==
    LET dp == pct - e.last_pct
        e1 == IF RatGT(dt, Rat(0, 1))
              THEN LET speed == RatDiv(Rat(dp, 1), dt)
                   IN  [e EXCEPT !.ema_speed =
                           IF @ = None THEN speed
                           ELSE RatAdd(RatMul(ema_alpha, speed),
                                       RatMul(RatSub(Rat(1, 1), ema_alpha), @))]
              ELSE e
    IN  render([e1 EXCEPT !.last_time = Some(t), !.last_pct = dp], pct, t, k)

\* lines 81-93: the body of the non-throttled update
\* lines 81-92 with the weights of the new and the prior rate exchanged
update_stats_swapped_weights(e, pct, t, k, dt) ==
    LET dp == pct - e.last_pct
        e1 == IF RatGT(dt, Rat(0, 1))
              THEN LET speed == RatDiv(Rat(dp, 1), dt)
                   IN  [e EXCEPT !.ema_speed =
                           IF @ = None THEN speed
                           ELSE RatAdd(RatMul(RatSub(Rat(1, 1), ema_alpha), speed),
                                       RatMul(ema_alpha, @))]
              ELSE e
    IN  render([e1 EXCEPT !.last_time = Some(t), !.last_pct = pct], pct, t, k)

update_stats(e, pct, t, k, dt) ==
    LET dp == pct - e.last_pct
        e1 == IF RatGT(dt, Rat(0, 1))
              THEN LET speed == RatDiv(Rat(dp, 1), dt)
                   IN  [e EXCEPT !.ema_speed =
                           IF @ = None THEN speed
                           ELSE RatAdd(RatMul(ema_alpha, speed),
                                       RatMul(RatSub(Rat(1, 1), ema_alpha), @))]
              ELSE e
    IN  render([e1 EXCEPT !.last_time = Some(t), !.last_pct = pct], pct, t, k)

\* the phase reset that keeps the smoothed rate of the phase before
phase_reset_keeps_rate(e, pct) ==
    IF e.last_pct >= reset_threshold /\ pct < MidThreshold
    THEN [e EXCEPT !.start_time = None,
                   !.last_time  = None,
                   !.last_pct   = 0]
    ELSE e

\* the phase reset taken on any drop of the percentage
phase_reset_on_any_drop(e, pct) ==
    IF pct < e.last_pct
    THEN [e EXCEPT !.start_time = None,
                   !.last_time  = None,
                   !.ema_speed  = None,
                   !.last_pct   = 0]
    ELSE e

\* lines 58-64: a new processing phase is detected
phase_reset(e, pct) ==
    IF e.last_pct >= reset_threshold /\ pct < MidThreshold
    THEN [e EXCEPT !.start_time = None,
                   !.last_time  = None,
                   !.ema_speed  = None,
                   !.last_pct   = 0]
    ELSE e

\* update_progress(progress, _) called at time t as call number k
\* update_progress anchoring the phase at an observation of 0 as well
update_progress_anchors_at_zero(e, progress, t, k) ==
    LET pct == normalize(progress)
        e1  == IF e.first_call
               THEN [e EXCEPT !.terminal = Append(@, [kind |-> "newline"]),
                              !.first_call = FALSE]
               ELSE e
        e2  == phase_reset(e1, pct)
    IN  IF e2.start_time = None
        THEN render([e2 EXCEPT !.start_time = Some(t),
                               !.last_time  = Some(t),
                               !.last_pct   = pct], pct, t, k)
        ELSE LET dt == Seconds(t - e2.last_time[1])
             IN  IF should_update(dt, pct)
                 THEN update_stats(e2, pct, t, k, dt)
                 ELSE e2

update_progress(e, progress, t, k) ==
    LET pct == normalize(progress)
        e1  == IF e.first_call
               THEN [e EXCEPT !.terminal = Append(@, [kind |-> "newline"]),
                              !.first_call = FALSE]
               ELSE e
        e2  == phase_reset(e1, pct)
    IN  IF e2.start_time = None
        THEN IF pct > 0
             THEN render([e2 EXCEPT !.start_time = Some(t),
                                    !.last_time  = Some(t),
                                    !.last_pct   = pct], pct, t, k)
             ELSE render(e2, pct, t, k)
        ELSE LET dt == Seconds(t - e2.last_time[1])
             IN  IF should_update(dt, pct)
                 THEN update_stats(e2, pct, t, k, dt)
                 ELSE e2

\* clear()
clear(e) == [e EXCEPT !.terminal = Append(@, [kind |-> "clear"])]

----------------------------------------------------------------------------
(* The observations fed to the estimator *)

\* progress values in hundredths: the fractions 0.0, 0.2, 0.5 and 1.0 and the
\* percentages 49, 50, 89, 90 and 100
ProgressInputs == {0, 20, 50, 100, 4900, 5000, 8900, 9000, 10000}

\* clock ticks between two calls: none (the same instant), one and two
Delays == {0, 1, 2}

----------------------------------------------------------------------------
(* State machine of one formatter instance and its stream *)

World ==
    [current_buffer        |-> current_buffer,
     bot_response_buffer   |-> bot_response_buffer,
     in_think_content_mode |-> in_think_content_mode,
     in_analysis_mode      |-> in_analysis_mode,
     stdout                |-> stdout,
     console               |-> console,
     route                 |-> route,
     dropped               |-> dropped,
     returned              |-> returned]

Becomes(w) ==
    /\ current_buffer' = w.current_buffer
    /\ bot_response_buffer' = w.bot_response_buffer
    /\ in_think_content_mode' = w.in_think_content_mode
    /\ in_analysis_mode' = w.in_analysis_mode
    /\ stdout' = w.stdout
    /\ console' = w.console
    /\ route' = w.route
    /\ dropped' = w.dropped
    /\ returned' = w.returned

InitFormatter(texts) ==
    /\ text \in texts
    /\ pos = 0
    /\ phase = "streaming"
    /\ current_buffer = FormattedPrinter.current_buffer
    /\ bot_response_buffer = FormattedPrinter.bot_response_buffer
    /\ in_think_content_mode = FormattedPrinter.in_think_content_mode
    /\ in_analysis_mode = FormattedPrinter.in_analysis_mode
    /\ stdout = <<>>
    /\ console = <<>>
    /\ route = <<>>
    /\ dropped = <<>>
    /\ returned = TRUE

\* the stream delivers its next n characters as one fragment
PrintFragment ==
    /\ phase = "streaming"
    /\ returned
    /\ \E n \in 1..(Len(text) - pos) :
        /\ Becomes(print_fragment(World, SubSeq(text, pos + 1, pos + n)))
        /\ pos' = pos + n
    /\ UNCHANGED <<text, phase, pvars, tvars>>

\* the round ends (the stream may have been cut short): finalize()
Finalize ==
    /\ phase = "streaming"
    /\ returned
    /\ Becomes(finalize(World))
    /\ phase' = "finalized"
    /\ UNCHANGED <<text, pos, pvars, tvars>>

\* the same instance is used for another stream; the terminal is observed
\* afresh
Restart ==
    /\ phase = "finalized"
    /\ returned
    /\ pos' = 0
    /\ phase' = "streaming"
    /\ stdout' = <<>>
    /\ console' = <<>>
    /\ route' = <<>>
    /\ dropped' = <<>>
    /\ UNCHANGED <<text, current_buffer, bot_response_buffer,
                   in_think_content_mode, in_analysis_mode, returned, pvars,
                   tvars>>

----------------------------------------------------------------------------
(* State machine of one estimator instance and its clock *)

Estimator ==
    [start_time    |-> start_time,
     last_time     |-> last_time,
     ema_speed     |-> ema_speed,
     last_pct      |-> last_pct,
     first_call    |-> first_call,
     terminal      |-> terminal,
     zero_division |-> zero_division]

EstimatorBecomes(e) ==
    /\ start_time' = e.start_time
    /\ last_time' = e.last_time
    /\ ema_speed' = e.ema_speed
    /\ last_pct' = e.last_pct
    /\ first_call' = e.first_call
    /\ terminal' = e.terminal
    /\ zero_division' = e.zero_division

InitEstimator ==
    /\ start_time = ProgressBarPrinter.start_time
    /\ last_time = ProgressBarPrinter.last_time
    /\ ema_speed = ProgressBarPrinter.ema_speed
    /\ last_pct = ProgressBarPrinter.last_pct
    /\ first_call = ProgressBarPrinter.first_call
    /\ now = 1
    /\ terminal = <<>>
    /\ observed = <<>>
    /\ reported = <<>>
    /\ zero_division = FALSE
    /\ cleared = FALSE

\* the model client reports a progress value, d ticks after the last report
UpdateProgress ==
    /\ ~cleared
    /\ ~zero_division
    /\ Len(observed) < MaxCalls
    /\ \E progress \in ProgressInputs, d \in Delays :
        /\ now' = now + d
        /\ observed' = Append(observed, normalize(progress))
        /\ reported' = Append(reported, progress)
        /\ EstimatorBecomes(
                update_progress(Estimator, progress, now + d, Len(observed) + 1))
    /\ UNCHANGED <<cleared, fvars, tvars>>

\* the round ends: the bar is erased
Clear ==
    /\ ~cleared
    /\ ~zero_division
    /\ cleared' = TRUE
    /\ EstimatorBecomes(clear(Estimator))
    /\ UNCHANGED <<now, observed, reported, fvars, tvars>>

----------------------------------------------------------------------------
(* Python built-ins used by the knowledge store: str(int), int(str),       *)
(* str.isdigit on keys written with the characters of KeyChars             *)

Digits == <<"0", "1", "2", "3", "4", "5", "6", "7", "8", "9">>

IsDigit(c) == \E j \in 1..Len(Digits) : Digits[j] = c

DigitValue(c) == (CHOOSE j \in 1..Len(Digits) : Digits[j] = c) - 1

isdigit(k) == Len(k) > 0 /\ \A i \in 1..Len(k) : IsDigit(k[i])

RECURSIVE str(_)
str(n) ==
    IF n < 10 THEN <<Digits[n + 1]>>
    ELSE str(n \div 10) \o <<Digits[(n % 10) + 1]>>

RECURSIVE int(_)
int(k) ==
    IF Len(k) = 1 THEN DigitValue(k[1])
    ELSE 10 * int(SubSeq(k, 1, Len(k) - 1)) + DigitValue(k[Len(k)])

\* int(k) raises ValueError
int_raises(k) == ~isdigit(k)

\* code point order of the key characters: digits before letters
Ord(c) == IF IsDigit(c) THEN DigitValue(c) ELSE 10

\* the ids are counted instead of the largest being taken
MaxOrZero_counts(nums) == Cardinality(nums)

\* max(nums, default=0)
MaxOrZero(nums) ==
    IF nums = {} THEN 0 ELSE CHOOSE x \in nums : \A y \in nums : y <= x

----------------------------------------------------------------------------
(* tools/knowledge.py : KnowledgeBase                                      *)
(* The backing file is [kind, items]: kind "absent" (no file), "garbage"   *)
(* (text that is not JSON), or the kind of the JSON document it holds:     *)
(* "dict" with items a sequence of <<key, value>> pairs in file order,     *)
(* "list" with items a sequence of <<value>>, "null".  A loaded value is   *)
(* [type, items] in the same way.                                          *)

Absent == [kind |-> "absent", items |-> <<>>]
Garbage == [kind |-> "garbage", items |-> <<>>]
JsonNull == [kind |-> "null", items |-> <<>>]
JsonList(values) == [kind |-> "list", items |-> values]
JsonDict(pairs) == [kind |-> "dict", items |-> pairs]

EmptyDict == [type |-> "dict", items |-> <<>>]

keys(items) == [i \in 1..Len(items) |-> items[i][1]]

values(items) == [i \in 1..Len(items) |-> items[i][2]]

HasKey(items, k) == \E i \in 1..Len(items) : items[i][1] = k

\* data[k]
getitem(items, k) == items[CHOOSE i \in 1..Len(items) : items[i][1] = k][2]

\* data[k] = v
setitem(items, k, v) ==
    IF HasKey(items, k)
    THEN [i \in 1..Len(items) |->
            IF items[i][1] = k THEN <<k, v>> ELSE items[i]]
    ELSE Append(items, <<k, v>>)

\* _load: a missing file and a file that cannot be decoded give {}
load(file) ==
    IF file.kind = "absent" THEN EmptyDict
    ELSE IF file.kind = "garbage" THEN EmptyDict
    ELSE [type |-> file.kind, items |-> file.items]

\* _save: the file is rewritten in full, or cannot be opened for writing
\* (a write that fails after the file was opened is not modelled)
save(file, items, writable) ==
    IF writable THEN JsonDict(items) ELSE file

NoResult == [op |-> "none", raised |-> "", message |-> <<>>, list |-> <<>>]

save_knowledge(file, knowledge, writable) ==
    LET data == load(file)
        nums == {int(data.items[i][1]) :
                    i \in {j \in 1..Len(data.items) : isdigit(data.items[j][1])}}
        next_num == MaxOrZero(nums) + 1
        updated == setitem(data.items, str(next_num), knowledge)
    IN  IF data.type # "dict"
        THEN [file   |-> file,
              result |-> [op |-> "save_knowledge", raised |-> "AttributeError",
                          message |-> <<>>, list |-> <<>>]]
        ELSE IF ~writable
        THEN [file   |-> save(file, updated, writable),
              result |-> [op |-> "save_knowledge", raised |-> "IOError",
                          message |-> <<>>, list |-> <<>>]]
        ELSE [file   |-> save(file, updated, writable),
              result |-> [op |-> "save_knowledge", raised |-> "",
                          message |-> <<"Knowledge ">> \o str(next_num)
                                        \o <<" saved successfully.">>,
                          list |-> <<>>]]

\* the keys are compared as text instead of as numbers
key_before_as_text(a, b) ==
    \E i \in 1..(Len(a) + 1) :
        /\ i <= Len(b)
        /\ \A j \in 1..(i - 1) : a[j] = b[j]
        /\ i > Len(a) \/ Ord(a[i]) < Ord(b[i])

\* key=int
key_before(a, b) == int(a) < int(b)

\* sorted(keys, key=int): stable
sorted(ks) ==
    LET n == Len(ks)
        rank == [i \in 1..n |->
                    1 + Cardinality({j \in 1..n :
                            \/ key_before(ks[j], ks[i])
                            \/ ~key_before(ks[i], ks[j]) /\ j < i})]
    IN  [p \in 1..n |-> ks[CHOOSE i \in 1..n : rank[i] = p]]

get_all_knowledge(file) ==
    LET data == load(file)
        ks == keys(data.items)
        ordered == sorted(ks)
    IN  IF data.items = <<>>
        THEN [op |-> "get_all_knowledge", raised |-> "", message |-> <<>>,
              list |-> <<>>]
        ELSE IF data.type # "dict"
        THEN [op |-> "get_all_knowledge", raised |-> "AttributeError",
              message |-> <<>>, list |-> <<>>]
        ELSE IF \E i \in 1..Len(ks) : int_raises(ks[i])
        THEN [op |-> "get_all_knowledge", raised |-> "", message |-> <<>>,
              list |-> values(data.items)]
        ELSE [op |-> "get_all_knowledge", raised |-> "", message |-> <<>>,
              list |-> [i \in 1..Len(ordered) |->
                            getitem(data.items, ordered[i])]]

----------------------------------------------------------------------------
(* main.py : cleanup_knowledge_base, main *)

\* each *.json file of the knowledge directory is unlinked; a file that
\* cannot be unlinked is logged and left in place
cleanup_knowledge_base_keeps(file, deletable) ==
    [file |-> file, warned |-> FALSE]

cleanup_knowledge_base(file, deletable) ==
    IF file.kind = "absent" THEN [file |-> file, warned |-> FALSE]
    ELSE IF deletable THEN [file |-> Absent, warned |-> FALSE]
    ELSE [file |-> file, warned |-> TRUE]

----------------------------------------------------------------------------
(* State machine of the knowledge store within a session *)

\* the texts the model saves
Notes == {"a", "b"}

\* what the backing file can hold when the process starts
InitialFiles ==
    { Absent, Garbage, JsonNull, JsonList(<<>>), JsonList(<< <<"a">> >>),
      JsonDict(<<>>),
      JsonDict(<< <<str(1), "a">>, <<str(2), "b">> >>),
      JsonDict(<< <<str(3), "b">> >>),
      JsonDict(<< <<str(9), "b">> >>),
      JsonDict(<< <<str(2), "b">>, <<str(1), "a">> >>),
      JsonDict(<< <<(<<"x">>), "a">> >>) }

InitKnowledge(files, at) ==
    /\ knowledge_file \in files
    /\ initial_file = knowledge_file
    /\ session = at
    /\ undeleted = FALSE
    /\ kb_result = NoResult
    /\ saved = <<>>

\* main() starts by clearing the knowledge directory
CleanupKnowledgeBase ==
    /\ session = "start"
    /\ \E deletable \in BOOLEAN :
        LET r == cleanup_knowledge_base(knowledge_file, deletable) IN
        /\ knowledge_file' = r.file
        /\ undeleted' = r.warned
    /\ session' = "prompt"
    /\ UNCHANGED <<initial_file, kb_result, saved, fvars, pvars, rvars, wvars,
                   svars>>

\* the model calls the save_knowledge tool
SaveKnowledge ==
    /\ session = "research"
    /\ Len(saved) < MaxSaves
    /\ \E knowledge \in Notes, writable \in BOOLEAN :
        LET r == save_knowledge(knowledge_file, knowledge, writable) IN
        /\ knowledge_file' = r.file
        /\ kb_result' = r.result
        /\ saved' = IF r.result.raised = ""
                    THEN Append(saved, [message |-> r.result.message,
                                        text |-> knowledge])
                    ELSE saved
    /\ UNCHANGED <<initial_file, session, undeleted, fvars, pvars, rvars,
                   wvars, svars>>

\* the model calls the get_all_knowledge tool
GetAllKnowledge ==
    /\ session = "research"
    /\ kb_result' = get_all_knowledge(knowledge_file)
    /\ UNCHANGED <<knowledge_file, initial_file, session, undeleted, saved,
                   fvars, pvars, rvars, wvars, svars>>

----------------------------------------------------------------------------
(* tools/reporting.py : sanitize_filename, create_report                   *)
(* A returned string is its literal head, character by character,          *)
(* followed by the interpolated values, one item each.  A path is written  *)
(* as the name of the file within reports/.  An I/O fault is a directory   *)
(* that cannot be created or a file that cannot be opened; a write that    *)
(* fails after the file was opened is not modelled.                        *)

ERROR_PREFIX == <<"E", "r", "r", "o", "r", ":", " ">>

DONE_PREFIX ==
    <<"D", "O", "N", "E", ",", " ", "R", "e", "p", "o", "r", "t", " ",
      "s", "a", "v", "e", "d", " ", "t", "o", " ">>

MD_SUFFIX == <<".", "m", "d">>

StartsWith(s, prefix) ==
    Len(s) >= Len(prefix) /\ SubSeq(s, 1, Len(prefix)) = prefix

\* \w of the characters used in titles
WordChars ==
    {"M", "y", "R", "e", "p", "o", "r", "t", "A", "I", "L", "_"}

\* a character class that lets the dot and the path separators through
Kept_with_separators(c) ==
    c \in WordChars \/ c \in Whitespace \/ c \in {"-", ".", "/", "\\"}

\* [^\w\s-] does not match c
Kept(c) == c \in WordChars \/ c \in Whitespace \/ c = "-"

\* s.strip()
strip(s) ==
    LET solid == {i \in 1..Len(s) : s[i] \notin Whitespace}
    IN  IF solid = {} THEN <<>>
        ELSE SubSeq(s, Min(solid),
                    CHOOSE i \in solid : \A j \in solid : j <= i)

\* s.replace(a, b) for one-character a and b
replace(s, a, b) == [i \in 1..Len(s) |-> IF s[i] = a THEN b ELSE s[i]]

\* the title is not stripped before the spaces are replaced
sanitize_filename_unstripped(title) ==
    LET sanitized == replace(SelectSeq(title, Kept), " ", "_")
    IN  [raised |-> IF sanitized = <<>> THEN "ValueError" ELSE "",
         value  |-> sanitized]

sanitize_filename(title) ==
    LET sanitized == replace(strip(SelectSeq(title, Kept)), " ", "_")
    IN  [raised |-> IF sanitized = <<>> THEN "ValueError" ELSE "",
         value  |-> sanitized]

\* datetime.now().strftime('%Y%m%d_%H%M%S'): the whole seconds of the
\* clock, written in digits
timestamp(t) == str(t \div TicksPerSecond)

\* the text of the report file
report_content(sanitized_title, content, sources) ==
    LET RECURSIVE lines(_)
        lines(q) == IF q = <<>> THEN <<>>
                    ELSE <<"- ", Head(q), "\n">> \o lines(Tail(q))
    IN  <<"#", " ">> \o sanitized_title
            \o <<"\n\n", content, "\n\n## Sources\n">> \o lines(sources)

\* open(name, "w") and write: the file is created or replaced
write_file(dir, name, content) ==
    {f \in dir : f.name # name} \cup {[name |-> name, content |-> content]}

\* the body of the try block: what it raised, and the directory it left.
\* fault is what the environment does to this call: "" (nothing),
\* "chat" (the token count of the conversation fails), "mkdir" (the
\* reports directory cannot be created), "open" (the file cannot be opened)
report_body(dir, title, content, sources, fault, t) ==
    LET s == sanitize_filename(title)
        name == s.value \o <<"_">> \o timestamp(t) \o MD_SUFFIX
    IN  IF fault = "chat"
        THEN [raised |-> "Exception", dir |-> dir, name |-> <<>>]
        ELSE IF s.raised # ""
        THEN [raised |-> s.raised, dir |-> dir, name |-> <<>>]
        ELSE IF fault \in {"mkdir", "open"}
        THEN [raised |-> "IOError", dir |-> dir, name |-> <<>>]
        ELSE [raised |-> "",
              dir    |-> write_file(dir, name,
                            report_content(s.value, content, sources)),
              name   |-> name]

\* only ValueError and IOError are handled
create_report_unguarded(dir, title, content, sources, fault, t) ==
    LET b == report_body(dir, title, content, sources, fault, t)
    IN  IF b.raised = ""
        THEN [dir |-> b.dir, raised |-> "", name |-> b.name,
              text |-> DONE_PREFIX \o b.name]
        ELSE IF b.raised = "ValueError"
        THEN [dir |-> b.dir, raised |-> "", name |-> <<>>,
              text |-> ERROR_PREFIX \o <<"Invalid report title: ", "e">>]
        ELSE IF b.raised = "IOError"
        THEN [dir |-> b.dir, raised |-> "", name |-> <<>>,
              text |-> ERROR_PREFIX
                          \o <<"Error writing report to file: ", "e">>]
        ELSE [dir |-> b.dir, raised |-> b.raised, name |-> <<>>,
              text |-> <<>>]

create_report(dir, title, content, sources, fault, t) ==
    LET b == report_body(dir, title, content, sources, fault, t)
    IN  IF b.raised = ""
        THEN [dir |-> b.dir, raised |-> "", name |-> b.name,
              text |-> DONE_PREFIX \o b.name]
        ELSE IF b.raised = "ValueError"
        THEN [dir |-> b.dir, raised |-> "", name |-> <<>>,
              text |-> ERROR_PREFIX \o <<"Invalid report title: ", "e">>]
        ELSE IF b.raised = "IOError"
        THEN [dir |-> b.dir, raised |-> "", name |-> <<>>,
              text |-> ERROR_PREFIX
                          \o <<"Error writing report to file: ", "e">>]
        ELSE [dir |-> b.dir, raised |-> "", name |-> <<>>,
              text |-> ERROR_PREFIX
                          \o <<"Unexpected error creating report: ", "e">>]

----------------------------------------------------------------------------
(* State machine of the report writer *)

TitleChars == {"M", "_", " ", "\t", "-", "!", "/", "\\", "."}

RECURSIVE TitlesOfLength(_)
TitlesOfLength(n) ==
    IF n = 0 THEN {<<>>}
    ELSE {Append(s, c) : s \in TitlesOfLength(n - 1), c \in TitleChars}

ExampleTitles ==
    { <<"M", "y", " ", "R", "e", "p", "o", "r", "t", "!">>,
      <<" ", " ", "M", "y", " ", "R", "e", "p", "o", "r", "t", " ", " ">>,
      <<"A", "I", "-", "M", "L">>,
      <<"M", " ", "!", " ", "M">>,
      <<".", ".", "/", ".", ".", "/", "M">>,
      <<"M", ".", "y", "/", ".", ".", "\\", "M">> }

Titles ==
    UNION {TitlesOfLength(n) : n \in 0..MaxTitle} \cup ExampleTitles

Contents == {"A", "B"}

\* the sources cited by the reports of the model
ReportSources == <<"https://example.com", "Wikipedia: Test">>

\* the titles of the reports written one after another
ReportTitles == { <<"M">>, <<"M", "!">>, <<"!">> }

Faults == {"", "chat", "mkdir", "open"}

\* time between two calls: none, or a second
ReportDelays == {0, TicksPerSecond}

NoReport ==
    [raised |-> "", text |-> <<>>, name |-> <<>>, title |-> <<>>,
     content |-> "", fault |-> "", at |-> 0]

InitReports ==
    /\ reports_dir = {}
    /\ clock = 0
    /\ report_result = NoReport
    /\ report_log = <<>>

\* the model calls the create_report tool with a title of the given set
CreateReportOf(titles) ==
    \E title \in titles, content \in Contents, fault \in Faults,
       d \in ReportDelays :
        LET r == create_report(reports_dir, title, content, ReportSources,
                               fault, clock + d)
        IN  /\ clock' = clock + d
            /\ reports_dir' = r.dir
            /\ report_result' =
                    [raised |-> r.raised, text |-> r.text, name |-> r.name,
                     title |-> title, content |-> content, fault |-> fault,
                     at |-> clock + d]
            /\ report_log' =
                    Append(report_log, [name |-> r.name, content |-> content])

\* the reports of a session
CreateReport ==
    /\ Len(report_log) < MaxReports
    /\ CreateReportOf(ReportTitles)
    /\ UNCHANGED <<fvars, pvars, kvars, wvars, svars>>

\* one report, of any title
CreateTitledReport ==
    /\ report_log = <<>>
    /\ CreateReportOf(Titles)
    /\ UNCHANGED <<fvars, pvars, kvars, wvars, svars>>

----------------------------------------------------------------------------
(* tools/crawler.py : validate_url, crawl4ai *)

\* the URLs the model passes to the crawler
Urls ==
    { "not-a-url", "", "https://example.com", "http://example.com/a",
      "HTTP://Example.com", "ftp://example.com", "http://", "https:///path",
      "//example.com", "http:example.com", "http://[bad" }

\* urllib.parse.urlparse on these URLs: the scheme (lower-cased) and the
\* network location, or ValueError
urlparse(url) ==
    CASE url = "https://example.com"  ->
            [raised |-> "", scheme |-> "https", netloc |-> "example.com"]
      [] url = "http://example.com/a" ->
            [raised |-> "", scheme |-> "http", netloc |-> "example.com"]
      [] url = "HTTP://Example.com"   ->
            [raised |-> "", scheme |-> "http", netloc |-> "Example.com"]
      [] url = "ftp://example.com"    ->
            [raised |-> "", scheme |-> "ftp", netloc |-> "example.com"]
      [] url = "http://"              ->
            [raised |-> "", scheme |-> "http", netloc |-> ""]
      [] url = "https:///path"        ->
            [raised |-> "", scheme |-> "https", netloc |-> ""]
      [] url = "//example.com"        ->
            [raised |-> "", scheme |-> "", netloc |-> "example.com"]
      [] url = "http:example.com"     ->
            [raised |-> "", scheme |-> "http", netloc |-> ""]
      [] url = "http://[bad"          ->
            [raised |-> "ValueError", scheme |-> "", netloc |-> ""]
      [] OTHER                        ->
            [raised |-> "", scheme |-> "", netloc |-> ""]

\* the host is not looked at
validate_url_scheme_only(url) ==
    LET result == urlparse(url)
    IN  result.raised = "" /\ result.scheme \in {"http", "https"}

validate_url(url) ==
    LET result == urlparse(url)
    IN  /\ result.raised = ""
        /\ result.scheme \in {"http", "https"}
        /\ result.netloc # ""

CRAWLING_PREFIX ==
    <<"E", "r", "r", "o", "r", " ", "c", "r", "a", "w", "l", "i", "n", "g",
      " ">>

\* what the crawler and the token counter do to a call: "" (the page is
\* fetched and its tokens counted), "ValueError" or "Exception" (raised by
\* the crawl), "tokenize" (the page is fetched, counting its tokens fails)
FetchOutcomes == {"", "ValueError", "Exception", "tokenize"}

NoWebResult ==
    [op |-> "none", arg |-> "", env |-> "", started |-> FALSE,
     raised |-> "", text |-> <<>>, requested |-> 0, items |-> <<>>]

\* the fields of a crawl4ai outcome
Crawled(url, outcome, started, result) ==
    [op |-> "crawl4ai", arg |-> url, env |-> outcome, started |-> started,
     raised |-> "", text |-> result, requested |-> 0, items |-> <<>>]

crawl4ai(url, outcome) ==
    IF ~validate_url(url)
    THEN Crawled(url, outcome, FALSE,
            ERROR_PREFIX \o <<"Invalid URL format: ", url,
                ". URL must start with http:// or https://">>)
    ELSE IF outcome = ""
    THEN Crawled(url, outcome, TRUE, <<"markdown of ", url>>)
    ELSE IF outcome = "ValueError"
    THEN Crawled(url, outcome, TRUE, ERROR_PREFIX \o <<"e">>)
    ELSE Crawled(url, outcome, TRUE,
            CRAWLING_PREFIX \o <<url, ":", " ", "e">>)

----------------------------------------------------------------------------
(* tools/search.py : duckduckgo_search *)

\* config/settings.py : SearchConfig.max_results
max_results == 6

\* a result of the search service: a dict, as a sequence of <<key, value>>
Hit(n) == << <<"title", "T">>, <<"href", n>>, <<"body", "B">> >>

\* a result without its link
Headless == << <<"title", "T">>, <<"body", "B">> >>

\* what the search service answers: the results, or an exception
ServiceAnswers ==
    { [raised |-> "", results |-> <<>>],
      [raised |-> "", results |-> <<Hit("h1")>>],
      [raised |-> "", results |-> <<Hit("h1"), Hit("h2")>>],
      [raised |-> "", results |-> <<Hit("h1"), Headless>>],
      [raised |-> "Exception", results |-> <<>>] }

Queries == {"q1", "q2"}

\* {'title': r['title'], 'href': r['href']} with every field of the result
project_all(r) == r

\* {'title': r['title'], 'href': r['href']}
project(r) ==
    << <<"title", getitem(r, "title")>>, <<"href", getitem(r, "href")>> >>

duckduckgo_search(search_query, answer) ==
    LET results == answer.results
        failed ==
            \/ answer.raised # ""
            \/ \E i \in 1..Len(results) :
                ~HasKey(results[i], "title") \/ ~HasKey(results[i], "href")
    IN  [op |-> "duckduckgo_search", arg |-> search_query, env |-> answer,
         started |-> TRUE, raised |-> "", text |-> <<>>,
         requested |-> max_results,
         items |-> IF failed THEN <<>>
                   ELSE [i \in 1..Len(results) |-> project(results[i])]]

----------------------------------------------------------------------------
(* State machine of the web tools *)

InitWeb ==
    /\ web_result = NoWebResult
    /\ fetched = {}

\* the model calls the crawl4ai tool
Crawl ==
    /\ \E url \in Urls, outcome \in FetchOutcomes :
        LET r == crawl4ai(url, outcome) IN
        /\ web_result' = r
        /\ fetched' = IF r.started THEN fetched \cup {url} ELSE fetched
    /\ UNCHANGED <<fvars, pvars, kvars, rvars, svars>>

\* the model calls the duckduckgo_search tool
Search ==
    /\ \E search_query \in Queries, answer \in ServiceAnswers :
        web_result' = duckduckgo_search(search_query, answer)
    /\ UNCHANGED <<fetched, fvars, pvars, kvars, rvars, svars>>

\* the tools at rest, for the specifications of the other components
----------------------------------------------------------------------------
(* main.py : main, core/researcher.py : researcher and                     *)
(* _execute_research_round, core/chat_manager.py : ChatManager             *)
(* A line read from the terminal is a sequence of characters; an answer to *)
(* the follow-up prompt is a line or the end of input.  An exception is    *)
(* the name of its class, "" for none.                                     *)

\* main, line 75: input(...).strip(), with the line taken as typed
research_topic_unstripped(line) == line

\* main, line 75: research_topic = input(...).strip()
research_topic(line) == strip(line)

\* ChatManager.__init__: the system prompt and the first user message, both
\* made from the query
ChatManager(query) ==
    << [role |-> "system", content |-> query],
       [role |-> "user", content |-> query] >>

\* ChatManager.add_user_message
add_user_message(messages, message) ==
    Append(messages, [role |-> "user", content |-> message])

\* on_message = chat.append: the model's answer of a round
assistant_message == [role |-> "assistant", content |-> <<>>]

\* researcher, lines 103-110, leaving the loop at the end of input only
ends_session_on_eof_only(answer) == answer.eof

\* researcher, lines 103-110: EOFError or an empty line leaves the loop
ends_session(answer) == answer.eof \/ answer.line = <<>>

\* main, lines 87-93, with KeyboardInterrupt raised again like the others
main_except_reraises(exception) ==
    [outcome |-> "raised", record |-> "exception"]

\* main, lines 87-93: KeyboardInterrupt is reported and main returns; any
\* other Exception is logged with its traceback and raised again
main_except(exception) ==
    IF exception = "KeyboardInterrupt"
    THEN [outcome |-> "returned", record |-> "interrupted"]
    ELSE [outcome |-> "raised", record |-> "exception"]

\* _execute_research_round, line 34, going on with the estimator of the
\* round before
new_progress_printer_reused(e) == e

\* _execute_research_round, line 34: progress_printer = ProgressBarPrinter()
new_progress_printer(e) ==
    [e EXCEPT !.start_time = ProgressBarPrinter.start_time,
              !.last_time  = ProgressBarPrinter.last_time,
              !.ema_speed  = ProgressBarPrinter.ema_speed,
              !.last_pct   = ProgressBarPrinter.last_pct,
              !.first_call = ProgressBarPrinter.first_call]

\* _execute_research_round, line 33: printer = FormattedPrinter(); the
\* terminal keeps what the rounds before wrote, the history of the stream
\* starts anew
new_printer(w) ==
    [w EXCEPT !.current_buffer        = FormattedPrinter.current_buffer,
              !.bot_response_buffer   = FormattedPrinter.bot_response_buffer,
              !.in_think_content_mode = FormattedPrinter.in_think_content_mode,
              !.in_analysis_mode      = FormattedPrinter.in_analysis_mode,
              !.route   = <<>>,
              !.dropped = <<>>]

\* the lines typed at the topic prompt
TopicLines == {<<>>, <<" ">>, <<"\t", " ">>, <<"q">>, <<" ", "q">>}

\* the answers to the follow-up prompt: the end of input and three lines
FollowUps ==
    {[eof |-> TRUE, line |-> <<>>]}
        \cup {[eof |-> FALSE, line |-> l] : l \in {<<>>, <<" ">>, <<"q">>}}

\* what ends a round or a prompt early
Exceptions == {"KeyboardInterrupt", "Exception"}

\* progress values of a round (49 and 90 percent) and the ticks between two
\* updates
RoundProgress == {4900, 9000}
RoundDelays == {2}

\* a stream that ends inside a reasoning block
RoundTexts == {THINK_OPEN \o <<"R">>}

InitSessionVars ==
    /\ topic = None
    /\ user_input = None
    /\ chat = None
    /\ rounds = 0
    /\ completed = 0
    /\ main_result = "running"
    /\ escaped = ""
    /\ log = <<>>

\* _execute_research_round up to the model call: the round gets its own
\* formatter and estimator and the stream starts
BeginRound ==
    /\ rounds' = rounds + 1
    /\ session' = "research"
    /\ Becomes(new_printer(World))
    /\ pos' = 0
    /\ phase' = "streaming"
    /\ EstimatorBecomes(new_progress_printer(Estimator))
    /\ cleared' = FALSE
    /\ UNCHANGED <<text, now, observed, reported>>

\* main() leaves, by return or by an exception
Leave(how, record, exception) ==
    /\ session' = "exit"
    /\ main_result' = how
    /\ escaped' = exception
    /\ log' = Append(log, record)
    /\ UNCHANGED <<rounds, fvars, pvars>>

\* main() reads the topic: a blank one ends the session; otherwise
\* researcher() creates the chat session, which fails if no model is loaded,
\* and starts the initial round
Prompt ==
    /\ session = "prompt"
    /\ \E line \in TopicLines, loaded \in BOOLEAN :
        /\ topic' = Some(line)
        /\ IF research_topic(line) = <<>>
           THEN /\ Leave("returned", "no task", "")
                /\ UNCHANGED chat
           ELSE IF ~loaded
           THEN /\ Leave(main_except("Exception").outcome,
                         main_except("Exception").record, "Exception")
                /\ UNCHANGED chat
           ELSE /\ chat' = Some(ChatManager(research_topic(line)))
                /\ log' = Append(log, "topic")
                /\ BeginRound
                /\ UNCHANGED <<main_result, escaped>>
    /\ UNCHANGED <<knowledge_file, initial_file, undeleted, kb_result, saved,
                   rvars, wvars, user_input, completed>>

\* the model streams the next fragment of its answer: the opening tag, or
\* all that is left
StreamFragment ==
    /\ session = "research"
    /\ PrintFragment
    /\ pos' \in {Len(THINK_OPEN), Len(text)}

\* the model client reports the progress of prompt processing
ReportProgress ==
    /\ session = "research"
    /\ Len(observed) < MaxCalls
    /\ \E progress \in RoundProgress, d \in RoundDelays :
        /\ now' = now + d
        /\ observed' = Append(observed, normalize(progress))
        /\ reported' = Append(reported, progress)
        /\ EstimatorBecomes(
                update_progress(Estimator, progress, now + d, Len(observed) + 1))
    /\ UNCHANGED <<cleared, fvars, tvars>>

\* the model call returns: the bar is erased and the answer rendered; the
\* follow-up prompt is shown
EndRound ==
    /\ session = "research"
    /\ chat # None
    /\ EstimatorBecomes(clear(Estimator))
    /\ cleared' = TRUE
    /\ Becomes(finalize(World))
    /\ phase' = "finalized"
    /\ chat' = Some(Append(chat[1], assistant_message))
    /\ completed' = completed + 1
    /\ session' = "followup"
    /\ UNCHANGED <<text, pos, now, observed, reported, knowledge_file,
                   initial_file,
                   undeleted, kb_result, saved, rvars, wvars, topic,
                   user_input, rounds, main_result, escaped, log>>

\* the user answers the follow-up prompt
FollowUp ==
    /\ session = "followup"
    /\ \E answer \in FollowUps :
        /\ ends_session(answer) \/ rounds < MaxRounds
        /\ user_input' = Some(answer)
        /\ IF ends_session(answer)
           THEN /\ Leave("returned", "ended", "")
                /\ UNCHANGED chat
           ELSE /\ chat' = Some(add_user_message(chat[1], answer.line))
                /\ BeginRound
                /\ UNCHANGED <<main_result, escaped, log>>
    /\ UNCHANGED <<knowledge_file, initial_file, undeleted, kb_result, saved,
                   rvars, wvars, topic, completed>>

\* the user interrupts, or something fails, in a round or at the follow-up
\* prompt: the exception reaches main()
Raise ==
    /\ session \in {"research", "followup"}
    /\ \E exception \in Exceptions :
        Leave(main_except(exception).outcome, main_except(exception).record,
              exception)
    /\ UNCHANGED <<knowledge_file, initial_file, undeleted, kb_result, saved,
                   rvars, wvars, topic, user_input, chat, completed>>

InitTools ==
    /\ InitKnowledge({Absent}, "start")
    /\ InitReports
    /\ InitWeb
    /\ InitSessionVars

----------------------------------------------------------------------------
(* Specifications *)

\* the formatter on every stream of at most MaxTokens tokens
Init == InitFormatter(StreamTexts) /\ InitEstimator /\ InitTools

Next == PrintFragment \/ Finalize \/ Restart

Spec == Init /\ [][Next]_vars

\* streams holding one well-formed reasoning block
InitThink == InitFormatter(ThinkTexts) /\ InitEstimator /\ InitTools
SpecThink == InitThink /\ [][Next]_vars

\* streams holding one well-formed analysis block
InitChannel == InitFormatter(ChannelTexts) /\ InitEstimator /\ InitTools
SpecChannel == InitChannel /\ [][Next]_vars

\* the estimator on every sequence of at most MaxCalls observations
InitProgress == InitFormatter({<<>>}) /\ InitEstimator /\ InitTools

NextProgress == UpdateProgress \/ Clear

SpecProgress == InitProgress /\ [][NextProgress]_vars

\* the user interface at rest, for the specifications of the tools
InitUI == InitFormatter({<<>>}) /\ InitEstimator

\* a KnowledgeBase on every backing file, used by the research loop
InitStore ==
    /\ InitUI /\ InitKnowledge(InitialFiles, "research")
    /\ InitReports /\ InitWeb /\ InitSessionVars

NextKnowledge == SaveKnowledge \/ GetAllKnowledge

SpecKnowledge == InitStore /\ [][NextKnowledge]_vars

\* a top-level session, from the start of main()
InitSession ==
    /\ InitUI /\ InitKnowledge(InitialFiles, "start")
    /\ InitReports /\ InitWeb /\ InitSessionVars

NextSession ==
    CleanupKnowledgeBase \/ Prompt \/ SaveKnowledge \/ GetAllKnowledge

SpecSession == InitSession /\ [][NextSession]_vars

\* the reports written one after another
InitReporting == InitUI /\ InitTools

NextReports == CreateReport

SpecReports == InitReporting /\ [][NextReports]_vars

\* one report of every title of at most MaxTitle characters
NextSanitize == CreateTitledReport

SpecSanitize == InitReporting /\ [][NextSanitize]_vars

\* the crawler and the search tool
NextWeb == Crawl \/ Search

SpecWeb == InitReporting /\ [][NextWeb]_vars

\* a session of at most MaxRounds research rounds, from the topic prompt of
\* main()
InitRounds ==
    /\ InitFormatter(RoundTexts) /\ InitEstimator
    /\ InitKnowledge({Absent}, "prompt")
    /\ InitReports /\ InitWeb /\ InitSessionVars

NextRounds ==
    \/ Prompt
    \/ StreamFragment
    \/ ReportProgress
    \/ EndRound
    \/ FollowUp
    \/ Raise

SpecRounds == InitRounds /\ [][NextRounds]_vars

----------------------------------------------------------------------------
(* Formatter properties *)

Range(s) == {s[i] : i \in 1..Len(s)}

Fed == SubSeq(text, 1, pos)
AllFed == pos = Len(text)

\* the fed characters whose destination is in tags, in stream order
Routed(tags) ==
    LET n     == IF Len(route) < pos THEN Len(route) ELSE pos
        pairs == [i \in 1..n |-> <<route[i], text[i]>>]
        kept  == SelectSeq(pairs, LAMBDA p : p[1] \in tags)
    IN  [i \in 1..Len(kept) |-> kept[i][2]]

\* <|channel|> name <|message|>
IsChannelHeader(seg) ==
    /\ Len(seg) >= Len(CHANNEL_OPEN) + Len(MESSAGE_OPEN)
    /\ SliceTo(seg, Len(CHANNEL_OPEN)) = CHANNEL_OPEN
    /\ SliceFrom(seg, Len(seg) - Len(MESSAGE_OPEN)) = MESSAGE_OPEN

\* C1: for every split of pre<think>R</think>post into fragments, no part of
\* R or of the markers is ever appended to the visible accumulator, and once
\* the whole text is fed and finalize has run, stdout is exactly dim-start,
\* R, style-reset and the rendered output holds no part of R.
C1_ThinkBlockHidden ==
    /\ Range(bot_response_buffer) \subseteq {"V"}
    /\ (phase = "finalized" /\ AllFed) =>
        /\ stdout = <<GREY>> \o SelectSeq(text, LAMBDA c : c = "R") \o <<RESET>>
        /\ \A i \in 1..Len(console) : "R" \notin Range(console[i])

\* C2: for every split of pre<|channel|>X<|message|>Y<|end|>post, the
\* channel name X is never printed and never enters the visible accumulator,
\* and once the whole text is fed and finalize has run, Y has been printed
\* between dim-start and style-reset and the rendered text holds neither X
\* nor Y.
C2_ChannelBlockHidden ==
    /\ "X" \notin Range(stdout)
    /\ "X" \notin Range(bot_response_buffer)
    /\ (phase = "finalized" /\ AllFed) =>
        /\ stdout = <<GREY>> \o SelectSeq(text, LAMBDA c : c = "Y") \o <<RESET>>
        /\ \A i \in 1..Len(console) : Range(console[i]) \cap {"X", "Y"} = {}

\* C3: while a stream is being fed, every fed character is either still
\* pending or has exactly one destination; the accumulator and the printed
\* text are exactly the characters routed to them, in stream order; and
\* every removed segment is a recognised marker or a <|channel|>name<|message|>
\* header.
C3_Conservation ==
    phase = "streaming" =>
        /\ Len(route) + Len(current_buffer) = pos
        /\ current_buffer = SubSeq(text, Len(route) + 1, pos)
        /\ Routed({"visible"}) = bot_response_buffer
        /\ Routed({"think", "analysis"}) = PrintedText(stdout)
        /\ Flatten(dropped) = Routed({"removed"})
        /\ \A i \in 1..Len(dropped) :
                \/ dropped[i] \in {THINK_OPEN, THINK_CLOSE, END_CLOSE}
                \/ IsChannelHeader(dropped[i])

\* visible text, then a reasoning block entered through a whole <think>
\* marker: the marker was removed, the text after it printed dim
C3_Witness ==
    /\ phase = "streaming" /\ AllFed
    /\ dropped = <<THINK_OPEN>>
    /\ {"visible", "think"} \subseteq Range(route)

\* a channel name removed together with its two markers
C3_WitnessChannelName ==
    /\ phase = "streaming" /\ AllFed
    /\ \E i \in 1..Len(dropped) :
            /\ IsChannelHeader(dropped[i])
            /\ Len(dropped[i]) > Len(CHANNEL_OPEN \o MESSAGE_OPEN)

\* a <think> marker split over two fragments stays literal visible text
C3_WitnessSplitMarker ==
    /\ phase = "streaming" /\ AllFed
    /\ text = THINK_OPEN \o <<"V">>
    /\ bot_response_buffer = text

\* C5: every call returns, whatever the markers in the stream, and leaves
\* every fed character disposed of (literal in an output, or removed).
C5_NeverFails ==
    /\ returned
    /\ Len(route) = pos
    /\ Range(route) \subseteq {"visible", "think", "analysis", "removed"}

\* a stray </think>, a <|channel|> without <|message|> and a <think> never
\* closed, fed in three fragments and finalized: all of it leaks as literal
\* text
C5_Witness ==
    /\ text = THINK_CLOSE \o CHANNEL_OPEN \o THINK_OPEN
    /\ phase = "finalized" /\ AllFed
    /\ returned
    /\ console = <<text>>

\* C6: after finalize the instance is as constructed, and so it is when the
\* next stream starts.
C6_FinalizeResets ==
    (phase = "finalized" \/ pos = 0) =>
        /\ current_buffer = FormattedPrinter.current_buffer
        /\ bot_response_buffer = FormattedPrinter.bot_response_buffer
        /\ in_think_content_mode = FormattedPrinter.in_think_content_mode
        /\ in_analysis_mode = FormattedPrinter.in_analysis_mode

\* a stream that ended inside an unterminated reasoning block after some
\* visible text, finalized
C6_Witness ==
    /\ text = <<"V">> \o THINK_OPEN \o <<"V">>
    /\ phase = "finalized" /\ AllFed
    /\ stdout = <<GREY, "V", RESET>>
    /\ console = <<<<"V">>>>

----------------------------------------------------------------------------
(* Estimator properties *)

Last(q) == q[Len(q)]

NonDecreasing(q) == \A i, j \in 1..Len(q) : i <= j => q[i] <= q[j]

\* the bars printed so far
Bars == SelectSeq(terminal, LAMBDA x : x.kind = "bar")

\* this step is an update_progress call
IsUpdate == Len(observed') = Len(observed) + 1

\* the estimator is anchored at the instant of the latest call with pct, or
\* unanchored if pct is not positive, and has no smoothed rate
ReanchoredAt(pct) ==
    /\ ema_speed = None
    /\ IF pct > 0
       THEN start_time = Some(now) /\ last_time = Some(now) /\ last_pct = pct
       ELSE start_time = None /\ last_time = None /\ last_pct = 0

\* the same of the state a step leads to
ReanchoredNextAt(pct) ==
    /\ ema_speed' = None
    /\ IF pct > 0
       THEN start_time' = Some(now') /\ last_time' = Some(now') /\ last_pct' = pct
       ELSE start_time' = None /\ last_time' = None /\ last_pct' = 0

\* C7 as stated: whenever an observation of at least 90% is followed by an
\* observation below 50%, the smoothed rate is discarded and the estimator
\* is re-anchored at the instant of the low observation (unanchored if 0).
C7_ResetAfterHighObservation ==
    LET n == Len(observed)
    IN  (n >= 2 /\ observed[n - 1] >= 90 /\ observed[n] < 50)
            => ReanchoredAt(observed[n])

\* C7 amended: whenever the recorded last_pct is at least the reset threshold
\* when an observation below 50% arrives, the update discards the smoothed
\* rate and re-anchors at the instant of that observation (unanchored if 0),
\* whatever the time elapsed.
C7_ResetAfterRecordedHigh ==
    [][(IsUpdate /\ last_pct >= reset_threshold /\ Last(observed') < MidThreshold)
            => ReanchoredNextAt(Last(observed'))]_vars

\* a phase that had a smoothed rate (a bar showed an ETA) was followed by a
\* low observation: the rate is gone and the anchor is the current instant
C7_Witness ==
    /\ Len(observed) = 3
    /\ observed[2] >= reset_threshold
    /\ observed[3] > 0 /\ observed[3] < MidThreshold
    /\ \E i \in 1..Len(Bars) : Bars[i].call = 2 /\ Bars[i].eta # Calculating
    /\ ReanchoredAt(observed[3])
    /\ Last(Bars).eta = Calculating

\* C8 as stated: in a step that is no phase reset, last_pct does not
\* decrease, whatever the observations.
C8_LastPercentNeverDecreases ==
    [][~(IsUpdate /\ last_pct >= reset_threshold /\ Last(observed') < MidThreshold)
            => last_pct' >= last_pct]_vars

\* C8 amended: last_pct decreases only in an update whose observation is
\* below the recorded last_pct; an update whose observation is at least
\* last_pct (every update of a non-decreasing sequence) never decreases it.
C8_LastPercentDecreasesOnlyOnLowerObservation ==
    [][last_pct' < last_pct => (IsUpdate /\ Last(observed') < last_pct)]_vars

\* three increasing observations far enough apart to be recorded each
C8_Witness ==
    /\ Len(observed) = 3
    /\ 0 < observed[1] /\ observed[1] < observed[2] /\ observed[2] < observed[3]
    /\ last_pct = observed[3]
    /\ Len(Bars) = 3
    /\ ema_speed # None

C10_NoDivisionByZero ==
    /\ ~zero_division
    /\ Bars # <<>> =>
        Last(Bars).eta =
            IF ema_speed = None \/ ~RatGT(ema_speed, Rat(0, 1))
            THEN Calculating
            ELSE Some(Trunc(RatDiv(Rat(100 - Last(Bars).pct, 1), ema_speed)))

\* a decreasing observation made the smoothed rate negative, and 100 then
\* arrived at the same instant: no rate is computed and no ETA is shown
C10_Witness ==
    /\ Len(observed) = 3
    /\ observed[2] < observed[1]
    /\ observed[3] = 100
    /\ Len(Bars) = 3
    /\ Bars[2].at = Bars[3].at
    /\ ema_speed # None /\ RatGT(Rat(0, 1), ema_speed)
    /\ Last(Bars).eta = Calculating
    /\ ~zero_division

\* a positive smoothed rate gives a computed ETA
C10_WitnessEta ==
    /\ Len(Bars) >= 2
    /\ ema_speed # None /\ RatGT(ema_speed, Rat(0, 1))
    /\ Last(Bars).pct < 100
    /\ Last(Bars).eta # Calculating /\ Last(Bars).eta # Some(0)

----------------------------------------------------------------------------
(* Knowledge store properties *)

\* the confirmation message of the save that was assigned id n
Confirmation(n) == <<"Knowledge ">> \o str(n) \o <<" saved successfully.">>

\* the texts of the successful saves of this process, in call order
SavedTexts == [i \in 1..Len(saved) |-> saved[i].text]

\* the entries of the store held by a backing file
Entries(file) ==
    IF load(file).type = "dict" THEN load(file).items ELSE <<>>

\* the file holds a map from decimal ids to texts
ValidMap(file) ==
    /\ file.kind = "dict"
    /\ \A i \in 1..Len(file.items) : isdigit(file.items[i][1])

\* the largest id of the map held by a backing file, 0 if it holds none
MaxId(file) ==
    MaxOrZero({int(Entries(file)[i][1]) : i \in 1..Len(Entries(file))})

\* the list holds the texts of the entries, those of smaller ids first
InIdOrder(list, entries) ==
    /\ Len(list) = Len(entries)
    /\ \A i \in 1..Len(entries) :
        list[1 + Cardinality({j \in 1..Len(entries) :
                    int(entries[j][1]) < int(entries[i][1])})] = entries[i][2]

\* C11: the n-th successful save_knowledge is assigned the largest id of
\* the store it started from plus n, so id n when there was no backing
\* file, and says so in its confirmation message; get_all_knowledge
\* returns the texts in ascending order of their numeric ids (id 10 after
\* id 9), which from no backing file is the order of the calls.
C11_SequentialIds ==
    (initial_file = Absent \/ ValidMap(initial_file)) =>
        /\ \A i \in 1..Len(saved) :
                saved[i].message = Confirmation(MaxId(initial_file) + i)
        /\ kb_result.op = "get_all_knowledge" =>
                /\ kb_result.raised = ""
                /\ InIdOrder(kb_result.list, Entries(knowledge_file))
                /\ initial_file = Absent => kb_result.list = SavedTexts

\* three notes were saved to a fresh store under ids 1, 2, 3 and read back
C11_Witness ==
    /\ initial_file = Absent
    /\ Len(saved) = 3
    /\ saved[3].message = Confirmation(3)
    /\ saved[1].text # saved[3].text
    /\ kb_result.op = "get_all_knowledge"
    /\ Len(kb_result.list) = 3

\* a note was saved under id 10 to a store holding id 9 and read back
\* after it
C11_WitnessTenAfterNine ==
    /\ initial_file = JsonDict(<< <<str(9), "b">> >>)
    /\ Len(saved) >= 1
    /\ saved[1].message = Confirmation(10)
    /\ saved[1].text = "a"
    /\ kb_result.op = "get_all_knowledge"
    /\ SubSeq(kb_result.list, 1, 2) = <<"b", "a">>

\* C12: when the backing file holds anything but a valid id-to-text map,
\* get_all_knowledge returns the empty list, and the next save_knowledge
\* does not fail on the content, is assigned id 1 and leaves a map holding
\* exactly the new entry.
C12_InvalidFileReadsEmpty ==
    (initial_file # Absent /\ ~ValidMap(initial_file)) =>
        /\ (kb_result.op = "get_all_knowledge" /\ saved = <<>>) =>
                kb_result.raised = "" /\ kb_result.list = <<>>
        /\ kb_result.op = "save_knowledge" =>
                kb_result.raised \in {"", "IOError"}
        /\ Len(saved) >= 1 => saved[1].message = Confirmation(1)
        /\ Len(saved) = 1 =>
                knowledge_file = JsonDict(<< <<str(1), saved[1].text>> >>)

----------------------------------------------------------------------------
(* Report writer properties *)

\* a step is a create_report call
IsCreate == Len(report_log') = Len(report_log) + 1

\* the title holds a word character or a hyphen
HasSolid(title) ==
    \E i \in 1..Len(title) : title[i] \in WordChars \/ title[i] = "-"

C16_ReportsImmutable ==
    [][(IsCreate /\ StartsWith(report_result'.text, DONE_PREFIX)) =>
        /\ reports_dir \subseteq reports_dir'
        /\ Cardinality(reports_dir') = Cardinality(reports_dir) + 1]_vars

\* the characters of s that are letters or hyphens
Solid(s) == SelectSeq(s, LAMBDA c : (c \in WordChars /\ c # "_") \/ c = "-")

\* the sanitized title S of a title: no removed character and no space is
\* left, no whitespace at either end, the letters and hyphens are those of
\* the title in order, and between the first and the last word character
\* or hyphen of the title every kept character has its place in S, the
\* spaces and underscores as underscores
Sanitizes(S, title) ==
    LET solid == {i \in 1..Len(title) :
                    title[i] \in WordChars \/ title[i] = "-"}
        first == Min(solid)
        last  == CHOOSE i \in solid : \A j \in solid : j <= i
    IN  /\ \A i \in 1..Len(S) :
                S[i] \in WordChars \cup {"-"} \cup (Whitespace \ {" "})
        /\ S[1] \notin Whitespace /\ S[Len(S)] \notin Whitespace
        /\ Solid(S) = Solid(title)
        /\ Len(S) = Cardinality({i \in first..last : Kept(title[i])})
        /\ Cardinality({i \in 1..Len(S) : S[i] = "_"}) =
                Cardinality({i \in first..last : title[i] \in {"_", " "}})

\* C17: with no fault of the environment, create_report fails on the
\* title exactly when the title holds no word character and no hyphen;
\* otherwise the file is named <sanitized>_<timestamp>.md and begins with
\* the heading "# <sanitized>", where the sanitized title is the title
\* without the characters other than word characters, whitespace and
\* hyphens, stripped, with an underscore for each space.
C17_SanitizedTitleNamesReport ==
    (report_log # <<>> /\ report_result.fault = "") =>
        LET r == report_result
            tail == <<"_">> \o timestamp(r.at) \o MD_SUFFIX
            S == SubSeq(r.name, 1, Len(r.name) - Len(tail))
        IN  IF ~HasSolid(r.title)
            THEN /\ r.text = ERROR_PREFIX \o <<"Invalid report title: ", "e">>
                 /\ reports_dir = {}
            ELSE /\ r.name = S \o tail
                 /\ Sanitizes(S, r.title)
                 /\ \E f \in reports_dir :
                        /\ f.name = r.name
                        /\ StartsWith(f.content, <<"#", " ">> \o S \o <<"\n\n">>)
                 /\ r.title = <<"M", "y", " ", "R", "e", "p", "o", "r", "t", "!">>
                        => S = <<"M", "y", "_", "R", "e", "p", "o", "r", "t">>
                 /\ r.title = <<"A", "I", "-", "M", "L">> => S = r.title
                 /\ r.title = <<"M", " ", "!", " ", "M">>
                        => S = <<"M", "_", "_", "M">>

\* the report titled "  My Report  " was written to My_Report_<timestamp>.md
C17_Witness ==
    /\ report_result.title =
            <<" ", " ", "M", "y", " ", "R", "e", "p", "o", "r", "t", " ", " ">>
    /\ report_result.fault = ""
    /\ StartsWith(report_result.name,
                  <<"M", "y", "_", "R", "e", "p", "o", "r", "t", "_">>)
    /\ Cardinality(reports_dir) = 1

\* a title of spaces and removed characters only was refused
C17_WitnessRefused ==
    /\ report_result.title = <<" ", "!">>
    /\ report_result.fault = ""
    /\ StartsWith(report_result.text, ERROR_PREFIX)

----------------------------------------------------------------------------
(* Web tool properties *)

\* the URL has the scheme http or https and a non-empty host
HttpUrl(url) ==
    /\ urlparse(url).raised = ""
    /\ urlparse(url).scheme \in {"http", "https"}
    /\ urlparse(url).netloc # ""

C19_CrawlErrorsPrefixed ==
    web_result.op = "crawl4ai" =>
        /\ web_result.raised = ""
        /\ (~HttpUrl(web_result.arg)
                \/ web_result.env \in {"ValueError", "Exception"}) =>
                StartsWith(web_result.text, ERROR_PREFIX)
        /\ (HttpUrl(web_result.arg) /\ web_result.env = "") =>
                web_result.text = <<"markdown of ", web_result.arg>>

\* the search service failed, or one of its results lacks a field
SearchFailed(answer) ==
    \/ answer.raised # ""
    \/ \E i \in 1..Len(answer.results) :
        \/ ~HasKey(answer.results[i], "title")
        \/ ~HasKey(answer.results[i], "href")

\* C20: duckduckgo_search never raises; it asks for max_results results;
\* it returns an array whose elements hold a title and a link and nothing
\* else, one for each result of the service in order, and the empty array
\* when the service or the processing of a result fails.
C20_SearchReturnsTitleAndHref ==
    web_result.op = "duckduckgo_search" =>
        /\ web_result.raised = ""
        /\ web_result.requested <= max_results
        /\ \A i \in 1..Len(web_result.items) :
                keys(web_result.items[i]) = <<"title", "href">>
        /\ IF SearchFailed(web_result.env)
           THEN web_result.items = <<>>
           ELSE /\ Len(web_result.items) = Len(web_result.env.results)
                /\ \A i \in 1..Len(web_result.items) :
                    /\ getitem(web_result.items[i], "href") =
                            getitem(web_result.env.results[i], "href")
                    /\ getitem(web_result.items[i], "title") =
                            getitem(web_result.env.results[i], "title")

\* a search with two results returned their titles and links
C20_Witness ==
    /\ web_result.op = "duckduckgo_search"
    /\ web_result.env.raised = ""
    /\ Len(web_result.env.results) = 2
    /\ Len(web_result.items) = 2
    /\ getitem(web_result.items[2], "href") = "h2"

\* a search whose second result had no link returned the empty array
C20_WitnessFailure ==
    /\ web_result.op = "duckduckgo_search"
    /\ web_result.env.raised = ""
    /\ Len(web_result.env.results) = 2
    /\ web_result.items = <<>>

----------------------------------------------------------------------------
(* Claims about the formatter's handling of one fragment                   *)

\* lowest 0-based index, at or after start, of an occurrence of t in s
FindFrom(s, t, start) ==
    LET hits == {i \in start..(Len(s) - Len(t)) : SubSeq(s, i + 1, i + Len(t)) = t}
    IN  IF hits = {} THEN -1 ELSE Min(hits)

\* a step on which print_fragment is called, and the buffer it works on
IsFragment == phase = "streaming" /\ pos' > pos
Buffer == current_buffer \o SubSeq(text, pos + 1, pos')

InNormal == ~in_think_content_mode /\ ~in_analysis_mode

\* <|channel|> is the earliest open marker of the buffer
ChannelFirst(buf) ==
    /\ Find(buf, CHANNEL_OPEN) # -1
    /\ Find(buf, THINK_OPEN) = -1 \/ Find(buf, CHANNEL_OPEN) < Find(buf, THINK_OPEN)

\* the characters printed, and the log written, since the step began
NewStdout == SliceFrom(stdout', Len(stdout))
NewVisible == SliceFrom(bot_response_buffer', Len(bot_response_buffer))

\* s begins with p
Prefix(p, s) == Len(p) <= Len(s) /\ SubSeq(s, 1, Len(p)) = p

\* C25: in NORMAL mode, when <|channel|> is the earliest open marker of the
\* buffer and a <|message|> occurs after it, the text before <|channel|> goes
\* to the visible accumulator, the channel name is discarded, the dim style
\* starts and the analysis block begins at the text after that <|message|>,
\* whether or not another <|message|> stands earlier in the buffer.
C25_ChannelOpensAnalysis ==
    [][LET buf == Buffer
           ch  == Find(buf, CHANNEL_OPEN)
           m   == FindFrom(buf, MESSAGE_OPEN, ch)
           body == SliceFrom(buf, m + Len(MESSAGE_OPEN))
           e   == Find(body, END_CLOSE)
       IN  (IsFragment /\ InNormal /\ ChannelFirst(buf) /\ m # -1)
           => /\ Prefix(SliceTo(buf, ch), NewVisible)
              /\ Prefix(<<GREY>> \o (IF e = -1 THEN body ELSE SliceTo(body, e)),
                        NewStdout)
              /\ Len(dropped') > Len(dropped)
              /\ dropped'[Len(dropped) + 1] = SubSeq(buf, ch + 1, m + Len(MESSAGE_OPEN))
              /\ e = -1 => in_analysis_mode']_vars

\* C26: after every print_fragment call and after finalize the pending buffer
\* is empty: nothing, and no partial marker, is held back between fragments.
C26_BufferDrained == returned => current_buffer = <<>>

\* a block was opened and closed by fragments that end inside a marker, and
\* the stream goes on in the middle of a marker
C26_Witness ==
    /\ returned
    /\ phase = "streaming"
    /\ 0 < pos /\ pos < Len(text)
    /\ text[pos] = "<"
    /\ \E i \in 1..Len(stdout) : stdout[i] = RESET
    /\ current_buffer = <<>>

\* C28: in NORMAL mode, when <|channel|> is the earliest open marker and no
\* <|message|> follows it in the buffer, the whole buffer goes verbatim to the
\* visible accumulator, nothing is printed and the mode stays NORMAL; a
\* <|message|> of a later fragment opens no analysis block.
C28_DanglingChannelLeaks ==
    [][LET buf == Buffer
           ch  == Find(buf, CHANNEL_OPEN)
           dangling == ChannelFirst(buf) /\ FindFrom(buf, MESSAGE_OPEN, ch) = -1
           unmarked == Find(buf, CHANNEL_OPEN) = -1 /\ Find(buf, THINK_OPEN) = -1
       IN  (IsFragment /\ InNormal /\ (dangling \/ unmarked))
           => /\ bot_response_buffer' = bot_response_buffer \o buf
              /\ stdout' = stdout
              /\ ~in_think_content_mode' /\ ~in_analysis_mode'
              /\ current_buffer' = <<>>]_vars

\* the channel marker came in one fragment and the message marker in a later
\* one: both are in the visible accumulator and nothing was printed
C28_Witness ==
    /\ phase = "streaming"
    /\ text = CHANNEL_OPEN \o <<"V">> \o MESSAGE_OPEN
    /\ pos = Len(text)
    /\ bot_response_buffer = text
    /\ stdout = <<>>
    /\ InNormal

\* C30: blocks do not nest: a reasoning block is ended by </think> only and
\* an analysis block by <|end|> only; every other marker inside a block is
\* printed as literal dimmed text, changes no mode and starts no further dim
\* style.
C30_BlocksDoNotNest ==
    [][/\ LET buf == Buffer
              own == IF in_think_content_mode THEN THINK_CLOSE ELSE END_CLOSE
              c   == Find(buf, own)
          IN  (IsFragment /\ ~InNormal)
              => IF c = -1
                 THEN /\ stdout' = stdout \o buf
                      /\ in_think_content_mode' = in_think_content_mode
                      /\ in_analysis_mode' = in_analysis_mode
                      /\ bot_response_buffer' = bot_response_buffer
                 ELSE Prefix(SliceTo(buf, c) \o <<RESET>>, NewStdout)
       /\ LET fragment   == Buffer
              th         == Find(fragment, THINK_OPEN)
              ch         == Find(fragment, CHANNEL_OPEN)
              m          == Find(fragment, MESSAGE_OPEN)
              opensThink == th # -1 /\ ~ChannelFirst(fragment)
              opensAnalysis == ChannelFirst(fragment) /\ m > ch
              rest == IF opensThink THEN SliceFrom(fragment, th + Len(THINK_OPEN))
                      ELSE SliceFrom(fragment, m + Len(MESSAGE_OPEN))
              own  == IF opensThink THEN THINK_CLOSE ELSE END_CLOSE
          IN  (IsFragment /\ InNormal /\ (opensThink \/ opensAnalysis)
                  /\ Find(rest, own) = -1)
              => /\ NewStdout = <<GREY>> \o rest
                 /\ in_think_content_mode' = opensThink
                 /\ in_analysis_mode' = opensAnalysis]_vars

\* inside a block a fragment brought another marker, which was printed
C30_Witness ==
    /\ phase = "streaming"
    /\ text = THINK_OPEN \o CHANNEL_OPEN \o MESSAGE_OPEN
    /\ pos = Len(text)
    /\ in_think_content_mode /\ ~in_analysis_mode
    /\ stdout = <<GREY>> \o CHANNEL_OPEN \o MESSAGE_OPEN
    /\ bot_response_buffer = <<>>

\* an analysis block met </think> and stayed open
C30_WitnessOtherClose ==
    /\ phase = "streaming"
    /\ text = CHANNEL_OPEN \o MESSAGE_OPEN \o THINK_CLOSE
    /\ pos = Len(text)
    /\ in_analysis_mode
    /\ stdout = <<GREY>> \o THINK_CLOSE

----------------------------------------------------------------------------
(* Claims about the phase reset and the throttle of the estimator          *)

\* the phase-reset test of an update with pct, on the recorded state
ResetDue(pct) == last_pct >= reset_threshold /\ pct < MidThreshold

\* C27: the phase-reset test depends on the recorded last_pct and the new
\* percentage only.  When it succeeds, start_time, last_time and the smoothed
\* rate are cleared, last_pct is set to 0 and the new value is handled as the
\* first observation of an unanchored phase: anchored at the current instant
\* if positive, and rendered without an ETA.  In every other case no anchor
\* and no rate is cleared and last_pct keeps its value or records the new one.
C27_ResetOnlyOnRecordedDrop ==
    [][IsUpdate =>
        LET pct == Last(observed')
        IN  IF ResetDue(pct)
            THEN /\ ReanchoredNextAt(pct)
                 /\ Last(terminal').kind = "bar"
                 /\ Last(terminal').eta = Calculating
                 /\ Last(terminal').elapsed = 0
            ELSE /\ start_time # None => start_time' = start_time
                 /\ last_time # None => last_time' # None
                 /\ ema_speed # None => ema_speed' # None
                 /\ last_pct' \in {last_pct, pct}]_vars

\* the percentage dropped from 89 to 49 in a phase that has a smoothed rate:
\* no reset, the anchor of the first call and a rate are still there
C27_Witness ==
    /\ Len(observed) = 3
    /\ observed[2] = 89
    /\ observed[3] = 49
    /\ start_time # None /\ start_time[1] < now
    /\ ema_speed # None
    /\ last_pct = 49

\* C29: when a phase is anchored, an update that triggers no phase reset,
\* arrives no more than update_interval after last_time and carries a
\* percentage below 100 changes no estimator state and renders nothing.
C29_ThrottledUpdateChangesNothing ==
    [][(/\ IsUpdate
        /\ start_time # None
        /\ ~ResetDue(Last(observed'))
        /\ ~RatGT(Seconds(now' - last_time[1]), update_interval)
        /\ Last(observed') < 100)
       => /\ UNCHANGED <<start_time, last_time, last_pct, ema_speed, first_call>>
          /\ terminal' = terminal]_vars

\* a second value arrived exactly update_interval after the anchoring one:
\* it is neither recorded nor rendered
C29_Witness ==
    /\ Len(observed) = 2
    /\ observed[2] < 100
    /\ observed[2] # observed[1]
    /\ start_time # None
    /\ last_time = start_time
    /\ Seconds(now - last_time[1]) = update_interval
    /\ last_pct = observed[1]
    /\ Len(Bars) = 1
    /\ ema_speed = None

----------------------------------------------------------------------------
(* Claims about the session: prompts, rounds and exceptions                *)

\* a line of nothing but whitespace
Blank(line) == \A i \in 1..Len(line) : line[i] \in Whitespace

\* C21: a blank topic (empty or of whitespace only) makes main return at
\* once and without error: no chat session is created, the model is not
\* called and no research round runs.
C21_BlankTopicExits ==
    (topic # None /\ Blank(topic[1]))
        => /\ session = "exit"
           /\ main_result = "returned"
           /\ escaped = ""
           /\ chat = None
           /\ rounds = 0 /\ completed = 0
           /\ observed = <<>> /\ pos = 0

\* a topic of a tab and a space was typed
C21_Witness ==
    /\ topic = Some(<<"\t", " ">>)
    /\ session = "exit"
    /\ main_result = "returned"
    /\ chat = None

\* this step is researcher's handling of an answer to the follow-up prompt
IsAnswer == session = "followup" /\ escaped' = ""

C22_WitnessEndOfInput ==
    /\ session = "exit"
    /\ user_input = Some([eof |-> TRUE, line |-> <<>>])
    /\ rounds = 2 /\ completed = 2
    /\ main_result = "returned"
    /\ escaped = ""

\* a line of one space is not empty: it is sent as a message
C22_WitnessSpace ==
    /\ session = "research"
    /\ rounds = 2
    /\ user_input = Some([eof |-> FALSE, line |-> <<" ">>])
    /\ chat[1][Len(chat[1])] = [role |-> "user", content |-> <<" ">>]

\* C23: a KeyboardInterrupt raised in a round or at the follow-up prompt ends
\* the session with main returning normally; any other exception leaving the
\* research loop is logged and raised again; in neither case does another
\* round start.
C23_InterruptReturnsErrorRaises ==
    [][/\ escaped' # escaped =>
            /\ session' = "exit"
            /\ rounds' = rounds /\ completed' = completed
            /\ IF escaped' = "KeyboardInterrupt"
               THEN /\ main_result' = "returned"
                    /\ log' = Append(log, "interrupted")
               ELSE /\ main_result' = "raised"
                    /\ log' = Append(log, "exception")
       /\ escaped # "" => rounds' = rounds /\ session' = "exit"]_vars

\* the second round was interrupted
C23_Witness ==
    /\ escaped = "KeyboardInterrupt"
    /\ main_result = "returned"
    /\ session = "exit"
    /\ rounds = 2 /\ completed = 1

\* the interrupt came at the follow-up prompt
C23_WitnessAtPrompt ==
    /\ escaped = "KeyboardInterrupt"
    /\ main_result = "returned"
    /\ rounds = 1 /\ completed = 1

\* the initial round failed
C23_WitnessRaised ==
    /\ escaped = "Exception"
    /\ main_result = "raised"
    /\ rounds = 1 /\ completed = 0
    /\ log[Len(log)] = "exception"

\* C24: every round starts with a formatter and an estimator of its own:
\* NORMAL mode, empty buffers, no anchor, no smoothed rate, whatever state
\* the round before ended in.
C24_FreshInstancesPerRound ==
    [][rounds' # rounds =>
        /\ current_buffer' = <<>>
        /\ bot_response_buffer' = <<>>
        /\ ~in_think_content_mode' /\ ~in_analysis_mode'
        /\ start_time' = None
        /\ last_time' = None
        /\ ema_speed' = None
        /\ last_pct' = 0
        /\ first_call']_vars

\* the round before ended inside a reasoning block and with a smoothed rate
\* (a bar showed an ETA); the second round starts from the constructors'
\* values
C24_Witness ==
    /\ rounds = 2 /\ session = "research"
    /\ pos = 0
    /\ stdout = <<GREY, "R", RESET>>
    /\ \E i \in 1..Len(Bars) : Bars[i].eta # Calculating
    /\ start_time = None /\ ema_speed = None /\ last_pct = 0 /\ first_call
    /\ ~in_think_content_mode

----------------------------------------------------------------------------
(* Claims about the rendered bar                                           *)

\* bar b has bar_width glyphs, the floor of bar_width * pct / 100 filled
WellFormed(b) ==
    /\ b.filled + b.empty = bar_width
    /\ 100 * b.filled <= bar_width * b.pct
    /\ bar_width * b.pct < 100 * (b.filled + 1)

----------------------------------------------------------------------------
(* Claims about the formatter's styling, modes and loop                    *)

\* the style codes printed so far, in order
Styles == SelectSeq(stdout, IsStyle)

InBlock == in_think_content_mode \/ in_analysis_mode

\* C32: in the printed output the dim-style-start and style-reset codes
\* strictly alternate, beginning with a start; the style is on exactly while
\* a block is open, and after finalize every start has its reset.
C32_StylesAlternate ==
    /\ \A i \in 1..Len(Styles) : Styles[i] = IF i % 2 = 1 THEN GREY ELSE RESET
    /\ InBlock <=> Len(Styles) % 2 = 1
    /\ phase = "finalized" => Len(Styles) % 2 = 0

\* a block was closed by its marker, the next was still open at finalize
C32_Witness ==
    /\ phase = "finalized"
    /\ text = THINK_OPEN \o THINK_CLOSE \o THINK_OPEN
    /\ pos = Len(text)
    /\ Styles = <<GREY, RESET, GREY, RESET>>

\* the formatter at the start and after each iteration of the loop of
\* _process_buffer, run on w
RECURSIVE loop_trace(_, _)
loop_trace(w, fuel) ==
    IF w.current_buffer = <<>> \/ fuel = 0 THEN <<w>>
    ELSE <<w>> \o loop_trace(account(w, dispatch(w)), fuel - 1)

\* the iterations of the call made by this step
Iterations ==
    LET w == [World EXCEPT !.current_buffer = Buffer]
    IN  loop_trace(w, Len(w.current_buffer))

\* C33: the mode flags are never both true, in no state and after no
\* iteration of the dispatch loop, and a block is entered from NORMAL mode
\* only.
C33_ModesExclusive ==
    [][/\ ~(in_think_content_mode' /\ in_analysis_mode')
       /\ IsFragment =>
            LET tr == Iterations
            IN  \A i \in 1..Len(tr) :
                    /\ ~(tr[i].in_think_content_mode /\ tr[i].in_analysis_mode)
                    /\ i > 1 =>
                        LET w == tr[i - 1]
                            v == tr[i]
                            entered ==
                                \/ v.in_think_content_mode /\ ~w.in_think_content_mode
                                \/ v.in_analysis_mode /\ ~w.in_analysis_mode
                        IN  entered =>
                                ~w.in_think_content_mode /\ ~w.in_analysis_mode]_vars

\* a reasoning marker arrived inside an analysis block and opened nothing
C33_Witness ==
    /\ phase = "streaming"
    /\ text = CHANNEL_OPEN \o MESSAGE_OPEN \o THINK_OPEN
    /\ pos = Len(text)
    /\ in_analysis_mode /\ ~in_think_content_mode
    /\ Styles = <<GREY>>

\* a reasoning block was left and the next entered by one fragment
C33_WitnessReentered ==
    /\ phase = "streaming"
    /\ text = THINK_OPEN \o THINK_CLOSE \o THINK_OPEN
    /\ pos = Len(text)
    /\ in_think_content_mode /\ ~in_analysis_mode
    /\ Styles = <<GREY, RESET, GREY>>

\* the marker an iteration on w consumes when it does not take the whole
\* buffer
ConsumedMarker(w) ==
    IF w.in_think_content_mode THEN THINK_CLOSE
    ELSE IF w.in_analysis_mode THEN END_CLOSE
    ELSE IF ChannelFirst(w.current_buffer) THEN CHANNEL_OPEN \o MESSAGE_OPEN
    ELSE THINK_OPEN

\* C37: every print_fragment and finalize call returns: each iteration of
\* the dispatch loop empties the pending buffer or shortens it by at least
\* the length of the marker it consumes.
C37_LoopTerminates ==
    [][/\ returned'
       /\ IsFragment =>
            LET tr == Iterations
            IN  \A i \in 2..Len(tr) :
                    \/ tr[i].current_buffer = <<>>
                    \/ Len(tr[i].current_buffer)
                            <= Len(tr[i - 1].current_buffer)
                                - Len(ConsumedMarker(tr[i - 1]))]_vars

\* one fragment of three markers took three iterations
C37_Witness ==
    /\ phase = "streaming"
    /\ returned
    /\ text = THINK_OPEN \o THINK_CLOSE \o CHANNEL_OPEN
    /\ pos = Len(text)
    /\ Len(route) = Len(text)
    /\ stdout = <<GREY, RESET>>
    /\ bot_response_buffer = CHANNEL_OPEN

\* the text of buf that stands before its first open marker taken as one
VisibleHead(buf) ==
    LET th == Find(buf, THINK_OPEN)
        ch == Find(buf, CHANNEL_OPEN)
    IN  IF th = -1 /\ ch = -1 THEN buf
        ELSE IF ChannelFirst(buf)
        THEN (IF Find(buf, MESSAGE_OPEN) > ch THEN SliceTo(buf, ch) ELSE buf)
        ELSE SliceTo(buf, th)

\* C38: print_fragment never prints visible text: what it accumulates it
\* does not print, and it renders nothing; finalize prints no text, renders
\* the accumulator as a whole, once, if and only if it holds a character
\* that is not whitespace, and empties it.
C38_VisibleOnlyRendered ==
    [][/\ IsFragment =>
            /\ console' = console
            /\ Len(PrintedText(NewStdout)) + Len(NewVisible) <= Len(Buffer)
            /\ InNormal => Prefix(VisibleHead(Buffer), NewVisible)
            /\ InNormal /\ VisibleHead(Buffer) = Buffer => stdout' = stdout
       /\ (phase = "streaming" /\ phase' = "finalized") =>
            /\ PrintedText(NewStdout) = <<>>
            /\ console' = IF StripNonEmpty(bot_response_buffer)
                          THEN Append(console, bot_response_buffer)
                          ELSE console
            /\ bot_response_buffer' = <<>>]_vars

\* the answer around a reasoning block was rendered once, as a whole, and
\* only the reasoning was printed
C38_Witness ==
    /\ phase = "finalized"
    /\ text = <<"V">> \o THINK_OPEN \o <<"V">>
    /\ pos = Len(text)
    /\ console = << <<"V">> >>
    /\ stdout = <<GREY, "V", RESET>>

\* an answer of whitespace only was not rendered
C38_WitnessBlank ==
    /\ phase = "finalized"
    /\ text = <<" ", " ">>
    /\ pos = Len(text)
    /\ console = <<>>
    /\ stdout = <<>>

----------------------------------------------------------------------------
(* Claims about anchoring and the smoothed rate                            *)

\* the call of this step finds no phase anchored: none was begun, or the
\* observation pct begins a new one
Unanchored(pct) == start_time = None \/ ResetDue(pct)

\* the bars on the terminal after this step
NewBars == SelectSeq(terminal', LAMBDA x : x.kind = "bar")

\* this step rendered one bar, for pct
Rendered(pct) ==
    /\ Len(NewBars) = Len(Bars) + 1
    /\ Last(NewBars).pct = pct
    /\ Last(NewBars).at = now'

\* C34: while no phase is anchored every update_progress call renders the
\* bar; start_time and last_time are set, to the instant of the call, only
\* by an observation above 0 made while unanchored, which also records
\* last_pct and leaves the smoothed rate None; an observation of 0 leaves
\* the estimator unanchored and is shown with an elapsed time of 0.
C34_AnchoredByFirstPositive ==
    [][/\ IsUpdate =>
            LET pct == Last(observed')
            IN  Unanchored(pct) =>
                    /\ Rendered(pct)
                    /\ pct > 0 =>
                        /\ start_time' = Some(now')
                        /\ last_time' = Some(now')
                        /\ last_pct' = pct
                        /\ ema_speed' = None
                    /\ pct = 0 =>
                        /\ start_time' = None
                        /\ last_time' = None
                        /\ ema_speed' = None
                        /\ Last(NewBars).elapsed = 0
                        /\ Last(NewBars).eta = Calculating
       /\ (start_time' # start_time /\ start_time' # None) =>
            /\ IsUpdate
            /\ Unanchored(Last(observed'))
            /\ Last(observed') > 0
            /\ start_time' = Some(now')]_vars

\* an observation of 0 was rendered unanchored, the next one anchored the
\* phase two ticks later
C34_Witness ==
    /\ observed = <<0, 20>>
    /\ Len(Bars) = 2
    /\ Bars[1].pct = 0 /\ Bars[1].elapsed = 0 /\ Bars[1].at = 1
    /\ Bars[2].pct = 20 /\ Bars[2].at = 3
    /\ start_time = Some(3) /\ last_time = Some(3)
    /\ last_pct = 20
    /\ ema_speed = None

\* C35: an update of an anchored phase that is not throttled and comes
\* dt > 0 after the last recorded one sets the smoothed rate to
\* (pct - last_pct) / dt if there was none and to
\* alpha * (pct - last_pct) / dt + (1 - alpha) * ema_speed otherwise, records
\* the instant and the percentage, and renders the bar.
C35_SmoothedRate ==
    [][IsUpdate =>
        LET pct == Last(observed')
        IN  (~Unanchored(pct)) =>
                LET dt    == Seconds(now' - last_time[1])
                    speed == RatDiv(Rat(pct - last_pct, 1), dt)
                IN  (should_update(dt, pct) /\ RatGT(dt, Rat(0, 1))) =>
                        /\ ema_speed' =
                            IF ema_speed = None THEN speed
                            ELSE RatAdd(RatMul(ema_alpha, speed),
                                        RatMul(RatSub(Rat(1, 1), ema_alpha),
                                               ema_speed))
                        /\ last_time' = Some(now')
                        /\ last_pct' = pct
                        /\ Rendered(pct)]_vars

\* 20% at the anchor, 50% and 89% each 0.2 s later: 150 %/s, then
\* 0.3 * 195 + 0.7 * 150 = 163.5 %/s
C35_Witness ==
    /\ observed = <<20, 50, 89>>
    /\ Len(Bars) = 3
    /\ Bars[2].at = 3 /\ Bars[3].at = 5
    /\ ema_speed = Rat(327, 2)
    /\ last_time = Some(5)
    /\ last_pct = 89

----------------------------------------------------------------------------
(* Claims about the normalisation of the reported progress                 *)

\* the percentage of the progress value r (in hundredths) as documented: a
\* fraction up to 1.0 times 100, a larger value as it is
Percentage(r) == IF r <= 100 THEN (r * 100) \div 100 ELSE r \div 100

\* C36: a reported value of at most 1.0 is shown and recorded as the
\* fraction times 100, a larger one as the percentage it is; 0.5 and 50
\* give the same percentage and 1 gives 100%.
C36_Normalized ==
    [][IsUpdate =>
        LET r == Last(reported')
        IN  /\ Len(NewBars) > Len(Bars) =>
                /\ Last(NewBars).pct = Percentage(r)
                /\ r = 100 => Last(NewBars).pct = 100
                /\ r \in {50, 5000} => Last(NewBars).pct = 50
            /\ last_pct' \in {last_pct, 0, Percentage(r)}
            /\ r = 100 => Len(NewBars) > Len(Bars)]_vars

\* 0.5, then 50, then 1: the bars show 50%, 50% and 100%
C36_Witness ==
    /\ reported = <<50, 5000, 100>>
    /\ Len(Bars) = 3
    /\ Bars[1].pct = 50
    /\ Bars[2].pct = 50
    /\ Bars[3].pct = 100 /\ Bars[3].filled = bar_width
    /\ last_pct = 100

----------------------------------------------------------------------------
(* Claims about where a report is written                                  *)

\* the characters that separate the components of a path
Separators == {"/", "\\"}

\* name is one path component ending in ".md", with no other dot
PlainReportName(name) ==
    LET n == Len(name) - Len(MD_SUFFIX)
    IN  /\ n > 0
        /\ SubSeq(name, n + 1, Len(name)) = MD_SUFFIX
        /\ \A i \in 1..n : name[i] \notin Separators \cup {"."}

\* C39: whatever the title, the name of the file create_report writes holds
\* no path separator and no dot but the one of the ".md" suffix, so the
\* file is an entry of the reports directory itself.
C39_ReportStaysInDirectory ==
    /\ \A f \in reports_dir : PlainReportName(f.name)
    /\ report_result.name # <<>> => PlainReportName(report_result.name)
    /\ (report_log # <<>> /\ report_result.fault = ""
            /\ HasSolid(report_result.title))
        => \E f \in reports_dir : f.name = report_result.name

\* the title "../../M" was written to M_<timestamp>.md
C39_Witness ==
    /\ report_result.title = <<".", ".", "/", ".", ".", "/", "M">>
    /\ report_result.fault = ""
    /\ report_result.name = <<"M", "_">> \o timestamp(report_result.at) \o MD_SUFFIX
    /\ \E f \in reports_dir : f.name = report_result.name

\* the title "M.y/..\M" was written to MyM_<timestamp>.md
C39_WitnessSuffix ==
    /\ report_result.title = <<"M", ".", "y", "/", ".", ".", "\\", "M">>
    /\ report_result.fault = ""
    /\ StartsWith(report_result.name, <<"M", "y", "M", "_">>)
    /\ Cardinality(reports_dir) = 1
====
